---- MODULE Spec2Model ----
(***************************************************************************)
(* Model of the OpenCode <-> Slack bridge: the in-memory thread store      *)
(* (store.js), the event accumulator (formatter.js) and the run            *)
(* orchestrator (app.js: handleMessage, handleInit, folderSelected,        *)
(* runWithQueue, processMessage) driving the process runner (opencode.js). *)
(*                                                                         *)
(* The runtime is single threaded: every action below is one synchronous   *)
(* stretch of JavaScript, from the delivery of an event (inbound message,  *)
(* button click, process signal, timer, completion of an awaited Slack     *)
(* call) up to the next await.                                             *)
(***************************************************************************)
EXTENDS Integers, Sequences, FiniteSets, TLC

\* ---------------------------------------------------------------- bounds
MaxMsgs == 3        \* inbound user requests (messages and !init) in one behaviour
MaxEvents == 1      \* events one process emits before it closes
MaxClicks == 1      \* folder-select button clicks in one behaviour
MaxMsgsTwo == 2     \* inbound user requests when two conversations run side by side
MaxMsgsLive == 2    \* inbound user requests in the behaviours checked for liveness
MaxPushes == 3      \* events pushed into an accumulator taken on its own
MaxLines == 2       \* lines a child process writes to its stdout
MaxChunk == 3       \* bytes of stdout delivered in one chunk
MaxFiles == 1       \* files attached to one request
MaxTextLen == 6     \* characters of a text handed to splitAtBoundary
MaxLimit == 3       \* the limit handed to splitAtBoundary
MaxPickerClicks == 2  \* folder-select clicks on the picker of one held request
MaxRejected == 2    \* Slack events delivered from users other than the allowed one
MaxRunEvents == 2   \* events of the one run whose updates are followed
MaxUpserts == 2     \* upsertThread calls on a store taken on its own
MaxToolPushes == 1  \* tool_use events pushed before a render of tool segments
MaxToolParts == 13  \* tool segments of an accumulator that is rendered
MaxThinkingParts == 3  \* thinking segments of an accumulator that is rendered

\* ------------------------------------------------------------- constants
MAX_TEXT_LEN == 2900
MAX_BLOCKS == 49
THINKING_LEN == 1400

Null == "null"
ThreadIds == {"t1", "t2"}
MainThread == "t1"
INIT_MESSAGE == "initialize this project"
DirectiveDir == "/dir"          \* a path given with the dir: prefix
PickedDir == "/picked"          \* a path chosen with a folder button
ExitCodes == {0, 1}
ALLOWED_USER_ID == "U_OWNER"
Users == {ALLOWED_USER_ID, "U_OTHER", Null}   \* Null: an event without a user

\* ------------------------------------------------------------- store.js
DefaultThread ==
  [sessionID |-> Null, directory |-> Null, model |-> Null, agent |-> Null,
   busy |-> FALSE, queue |-> <<>>, pendingMessage |-> Null,
   pendingCommand |-> Null, pickerTs |-> Null, browsePath |-> Null]

\* mutant of Merge: a patched record starts again from the default fields
Merge_fresh(existing, patch) ==
  [f \in DOMAIN existing |-> IF f \in DOMAIN patch THEN patch[f] ELSE
     IF f = "busy" THEN FALSE ELSE IF f = "queue" THEN <<>> ELSE "null"]

\* { ...existing, ...patch }: the fields of patch override those of existing
Merge(existing, patch) ==
  [f \in DOMAIN existing |-> IF f \in DOMAIN patch THEN patch[f] ELSE existing[f]]

\* threads.get(threadTs) ?? null, as a sequence: empty for null
getThread(map, threadTs) == IF threadTs \in DOMAIN map THEN <<map[threadTs]>> ELSE <<>>

HasThread(map, threadTs) == threadTs \in DOMAIN map

\* mutant of upsertThread: the patch is merged into every thread of the map
upsertThread_all(map, threadTs, patch) ==
  [x \in (DOMAIN map) \cup {threadTs} |->
     Merge(IF x \in DOMAIN map THEN map[x] ELSE DefaultThread, patch)]

upsertThread(map, threadTs, patch) ==
  LET existing == IF HasThread(map, threadTs) THEN map[threadTs] ELSE DefaultThread
      updated == Merge(existing, patch)
  IN [x \in (DOMAIN map) \cup {threadTs} |-> IF x = threadTs THEN updated ELSE map[x]]

\* what upsertThread returns: the record it stored
upsertResult(map, threadTs, patch) ==
  Merge(IF HasThread(map, threadTs) THEN map[threadTs] ELSE DefaultThread, patch)

\* --------------------------------------------------------- formatter.js
\* Text is a sequence of one-character strings; a block's text is a sequence
\* of strings (fixed labels are one-element sequences).
markdownSection(text) == [type |-> "section", text |-> IF text = <<>> THEN <<" ">> ELSE text]
contextBlock(text) == [type |-> "context", text |-> text]

ThinkingLabel == <<"Thinking...">>
ProcessingLabel == <<"Processing...">>
TruncatedLabel == <<"(output truncated - too many blocks for Slack)">>

NewAccumulator ==
  [parts |-> <<>>, currentText |-> <<>>, finished |-> FALSE,
   tokenInfo |-> <<>>, stepCount |-> 0]

\* lastIndexOf(ch, from): the largest 0-based index i <= from with str[i] = ch, or -1
lastIndexOf(str, ch, from) ==
  LET hits == {i \in 0..(Len(str) - 1) : i <= from /\ str[i + 1] = ch}
  IN IF hits = {} THEN -1 ELSE CHOOSE i \in hits : \A j \in hits : j <= i

\* mutant of Slice: the character at the split point is skipped
Slice_skip(str, from) == SubSeq(str, from + 2, Len(str))

Slice(str, from) == SubSeq(str, from + 1, Len(str))

RECURSIVE splitLoop(_, _, _)
splitLoop(remaining, max, chunks) ==
  IF Len(remaining) = 0 THEN chunks
  ELSE IF Len(remaining) <= max THEN Append(chunks, remaining)
  ELSE LET nl == lastIndexOf(remaining, "\n", max)
           sp == IF nl <= 0 THEN lastIndexOf(remaining, " ", max) ELSE nl
           splitAt == IF sp <= 0 THEN max ELSE sp
           rest == Slice(remaining, splitAt)
           trimmed == IF Len(rest) > 0 /\ rest[1] = "\n" THEN Tail(rest) ELSE rest
       IN splitLoop(trimmed, max, Append(chunks, SubSeq(remaining, 1, splitAt)))

splitAtBoundary(str, max) ==
  IF Len(str) <= max THEN <<str>> ELSE splitLoop(str, max, <<>>)

MapSeq(s, Op(_)) == [i \in 1..Len(s) |-> Op(s[i])]

splitTextBlocks(text) ==
  IF text = <<>> THEN <<>>
  ELSE MapSeq(splitAtBoundary(text, MAX_TEXT_LEN), markdownSection)

RECURSIVE quoteLines(_)
quoteLines(chunk) ==
  IF chunk = <<>> THEN <<>>
  ELSE IF Head(chunk) = "\n" THEN <<"\n", ">">> \o quoteLines(Tail(chunk))
  ELSE <<Head(chunk)>> \o quoteLines(Tail(chunk))

thinkingSection(chunk) == markdownSection(<<">_*Thinking:*_\n>">> \o quoteLines(chunk))

splitThinkingBlocks(text) ==
  IF text = <<>> THEN <<>>
  ELSE MapSeq(splitAtBoundary(text, THINKING_LEN), thinkingSection)

\* ---- tool formatting
Get(rec, field, default) == IF field \in DOMAIN rec THEN rec[field] ELSE default

\* part?.x ?? default, where part may be missing from the event
PartGet(event, field, default) ==
  IF "part" \in DOMAIN event THEN Get(event.part, field, default) ELSE default

EmptyObject == [none \in {} |-> <<>>]

\* a || b || "" on strings: the first non-empty one
FirstNonEmpty(a, b) == IF a # <<>> THEN a ELSE b

formatTool(event) ==
  LET state == PartGet(event, "state", EmptyObject)
  IN [tool |-> PartGet(event, "tool", "unknown"),
      title |-> FirstNonEmpty(Get(state, "title", <<>>), PartGet(event, "callID", <<>>)),
      status |-> Get(state, "status", "running"),
      input |-> Get(state, "input", EmptyObject),
      output |-> Get(state, "output", <<>>)]

Arrow == <<" ", "->", " ">>
Unknown == <<"?">>

InputKeys == <<"filePath", "content", "oldString", "newString", "command", "pattern", "include">>

RECURSIVE jsonFields(_, _, _)
jsonFields(input, i, first) ==
  IF i > Len(InputKeys) THEN <<>>
  ELSE IF InputKeys[i] \in DOMAIN input
       THEN (IF first THEN <<>> ELSE <<",">>)
            \o <<"\n", " ", " ", "\"", InputKeys[i], "\"", ":", " ", "\"">>
            \o input[InputKeys[i]] \o <<"\"">>
            \o jsonFields(input, i + 1, FALSE)
       ELSE jsonFields(input, i + 1, first)

\* JSON.stringify(input, null, 2)
jsonStringify(input) ==
  IF DOMAIN input = {} THEN <<"{", "}">>
  ELSE <<"{">> \o jsonFields(input, 1, TRUE) \o <<"\n", "}">>

formatToolInput(tool, input) ==
  CASE tool = "write" ->
         <<"write">> \o Arrow \o Get(input, "filePath", Unknown) \o <<"\n">> \o Get(input, "content", <<>>)
    [] tool = "edit" ->
         <<"edit">> \o Arrow \o Get(input, "filePath", Unknown)
           \o <<"\n", "-", " ">> \o Get(input, "oldString", <<>>)
           \o <<"\n", "+", " ">> \o Get(input, "newString", <<>>)
    [] tool = "read" -> <<"read">> \o Arrow \o Get(input, "filePath", Unknown)
    [] tool = "bash" -> <<"$", " ">> \o Get(input, "command", Unknown)
    [] tool = "glob" -> <<"glob">> \o Arrow \o Get(input, "pattern", Unknown)
    [] tool = "grep" ->
         <<"grep">> \o Arrow \o Get(input, "pattern", Unknown) \o <<" ">>
           \o (IF Get(input, "include", <<>>) # <<>>
               THEN <<"(">> \o input.include \o <<")">> ELSE <<>>)
    [] tool = "todowrite" -> <<"update todos">>
    [] OTHER -> jsonStringify(input)

\* the code fence and the backquote of the markdown, as named tokens
Fence == "<fence>"
Tick == "<tick>"

codeSection(chunk) == markdownSection(<<Fence, "\n">> \o chunk \o <<"\n", Fence>>)

DividerBlock == [type |-> "divider", text |-> <<>>]

\* mutant of toolBlocks: the output is shown whatever the status
toolBlocks_anyStatus(t) ==
  LET icon == IF t.status = "completed" THEN ":white_check_mark:" ELSE ":hourglass_flowing_sand:"
      header == <<icon, " ", " ", "*", t.tool, "*">>
                  \o (IF t.title # <<>> THEN <<" ", " ", Tick>> \o t.title \o <<Tick>> ELSE <<>>)
      inputStr == formatToolInput(t.tool, t.input)
      inputBlocks == IF inputStr # <<>>
                     THEN MapSeq(splitAtBoundary(inputStr, THINKING_LEN), codeSection)
                     ELSE <<>>
      outputBlocks == IF t.output # <<>>
                      THEN MapSeq(splitAtBoundary(t.output, THINKING_LEN), codeSection)
                      ELSE <<>>
  IN <<markdownSection(header)>> \o inputBlocks \o outputBlocks \o <<DividerBlock>>

toolBlocks(t) ==
  LET icon == IF t.status = "completed" THEN ":white_check_mark:" ELSE ":hourglass_flowing_sand:"
      header == <<icon, " ", " ", "*", t.tool, "*">>
                  \o (IF t.title # <<>> THEN <<" ", " ", Tick>> \o t.title \o <<Tick>> ELSE <<>>)
      inputStr == formatToolInput(t.tool, t.input)
      inputBlocks == IF inputStr # <<>>
                     THEN MapSeq(splitAtBoundary(inputStr, THINKING_LEN), codeSection)
                     ELSE <<>>
      outputBlocks == IF t.status = "completed" /\ t.output # <<>>
                      THEN MapSeq(splitAtBoundary(t.output, THINKING_LEN), codeSection)
                      ELSE <<>>
  IN <<markdownSection(header)>> \o inputBlocks \o outputBlocks \o <<DividerBlock>>

\* ---- the accumulator
\* mutant of FlushText: the flushed text is put before the other segments
FlushText_front(acc) ==
  IF acc.currentText # <<>>
  THEN [acc EXCEPT !.parts = <<[type |-> "text", data |-> acc.currentText]>> \o @,
                   !.currentText = <<>>]
  ELSE acc

\* mutant of FlushText: the buffer is not emptied
FlushText_keep(acc) ==
  IF acc.currentText # <<>>
  THEN [acc EXCEPT !.parts = Append(@, [type |-> "text", data |-> acc.currentText])]
  ELSE acc

FlushText(acc) ==
  IF acc.currentText # <<>>
  THEN [acc EXCEPT !.parts = Append(@, [type |-> "text", data |-> acc.currentText]),
                   !.currentText = <<>>]
  ELSE acc

\* mutant of TokenInfoOf: the cache counts are not taken over
TokenInfoOf_noCache(event) ==
  LET tokens == event.part.tokens
  IN [total |-> Get(tokens, "total", 0), input |-> Get(tokens, "input", 0),
      output |-> Get(tokens, "output", 0), reasoning |-> Get(tokens, "reasoning", 0),
      cacheRead |-> 0, cacheWrite |-> 0, cost |-> PartGet(event, "cost", 0)]

TokenInfoOf(event) ==
  LET tokens == event.part.tokens
      cache == Get(tokens, "cache", EmptyObject)
  IN [total |-> Get(tokens, "total", 0), input |-> Get(tokens, "input", 0),
      output |-> Get(tokens, "output", 0), reasoning |-> Get(tokens, "reasoning", 0),
      cacheRead |-> Get(cache, "read", 0), cacheWrite |-> Get(cache, "write", 0),
      cost |-> PartGet(event, "cost", 0)]

\* mutant of push: a step-start marks the run unfinished again
push_restart(acc, event) ==
  CASE event.type = "step_start" ->
         LET counted == [acc EXCEPT !.stepCount = @ + 1, !.finished = FALSE]
         IN IF counted.stepCount > 1 THEN FlushText(counted) ELSE counted
    [] event.type = "text" ->
         [acc EXCEPT !.currentText = @ \o PartGet(event, "text", <<>>)]
    [] event.type = "tool_use" ->
         LET flushed == FlushText(acc)
         IN [flushed EXCEPT !.parts = Append(@, [type |-> "tool", data |-> formatTool(event)])]
    [] event.type = "step_finish" ->
         LET counted == IF PartGet(event, "tokens", <<>>) # <<>>
                        THEN [acc EXCEPT !.tokenInfo = <<TokenInfoOf(event)>>]
                        ELSE acc
         IN IF PartGet(event, "reason", "") = "stop"
            THEN [counted EXCEPT !.finished = TRUE] ELSE counted
    [] event.type = "thinking" ->
         LET flushed == FlushText(acc)
             data == IF "part" \in DOMAIN event /\ "thinking" \in DOMAIN event.part
                     THEN event.part.thinking
                     ELSE PartGet(event, "text", <<>>)
         IN [flushed EXCEPT !.parts = Append(@, [type |-> "thinking", data |-> data])]
    [] OTHER -> acc

\* mutant of push: a text fragment takes the place of the buffer
push_replaceText(acc, event) ==
  CASE event.type = "step_start" ->
         LET counted == [acc EXCEPT !.stepCount = @ + 1]
         IN IF counted.stepCount > 1 THEN FlushText(counted) ELSE counted
    [] event.type = "text" ->
         [acc EXCEPT !.currentText = PartGet(event, "text", <<>>)]
    [] event.type = "tool_use" ->
         LET flushed == FlushText(acc)
         IN [flushed EXCEPT !.parts = Append(@, [type |-> "tool", data |-> formatTool(event)])]
    [] event.type = "step_finish" ->
         LET counted == IF PartGet(event, "tokens", <<>>) # <<>>
                        THEN [acc EXCEPT !.tokenInfo = <<TokenInfoOf(event)>>]
                        ELSE acc
         IN IF PartGet(event, "reason", "") = "stop"
            THEN [counted EXCEPT !.finished = TRUE] ELSE counted
    [] event.type = "thinking" ->
         LET flushed == FlushText(acc)
             data == IF "part" \in DOMAIN event /\ "thinking" \in DOMAIN event.part
                     THEN event.part.thinking
                     ELSE PartGet(event, "text", <<>>)
         IN [flushed EXCEPT !.parts = Append(@, [type |-> "thinking", data |-> data])]
    [] OTHER -> acc

push(acc, event) ==
  CASE event.type = "step_start" ->
         LET counted == [acc EXCEPT !.stepCount = @ + 1]
         IN IF counted.stepCount > 1 THEN FlushText(counted) ELSE counted
    [] event.type = "text" ->
         [acc EXCEPT !.currentText = @ \o PartGet(event, "text", <<>>)]
    [] event.type = "tool_use" ->
         LET flushed == FlushText(acc)
         IN [flushed EXCEPT !.parts = Append(@, [type |-> "tool", data |-> formatTool(event)])]
    [] event.type = "step_finish" ->
         LET counted == IF PartGet(event, "tokens", <<>>) # <<>>
                        THEN [acc EXCEPT !.tokenInfo = <<TokenInfoOf(event)>>]
                        ELSE acc
         IN IF PartGet(event, "reason", "") = "stop"
            THEN [counted EXCEPT !.finished = TRUE] ELSE counted
    [] event.type = "thinking" ->
         LET flushed == FlushText(acc)
             data == IF "part" \in DOMAIN event /\ "thinking" \in DOMAIN event.part
                     THEN event.part.thinking
                     ELSE PartGet(event, "text", <<>>)
         IN [flushed EXCEPT !.parts = Append(@, [type |-> "thinking", data |-> data])]
    [] OTHER -> acc

\* (n / unit).toFixed(1), n and unit integers
toFixed1(n, unit) ==
  LET tenths == (n * 10 + unit \div 2) \div unit
  IN ToString(tenths \div 10) \o "." \o ToString(tenths % 10)

fmtNum(n) ==
  IF n >= 1000000 THEN toFixed1(n, 1000000) \o "M"
  ELSE IF n >= 1000 THEN toFixed1(n, 1000) \o "k"
  ELSE ToString(n)

Pad4(n) ==
  IF n < 10 THEN "000" \o ToString(n)
  ELSE IF n < 100 THEN "00" \o ToString(n)
  ELSE IF n < 1000 THEN "0" \o ToString(n)
  ELSE ToString(n)

\* cost.toFixed(4), the cost held in units of 0.0001 dollar
costFixed4(cost) == ToString(cost \div 10000) \o "." \o Pad4(cost % 10000)

usageLine(tokenInfo) ==
  <<"tokens: ", fmtNum(tokenInfo.input), " in / ", fmtNum(tokenInfo.output), " out">>
    \o (IF tokenInfo.cacheRead > 0
        THEN <<"  |  cache: ", fmtNum(tokenInfo.cacheRead), " read">> ELSE <<>>)
    \o (IF tokenInfo.cost > 0 THEN <<"  |  $", costFixed4(tokenInfo.cost)>> ELSE <<>>)

partBlocks(p) ==
  CASE p.type = "text" -> splitTextBlocks(p.data)
    [] p.type = "tool" -> toolBlocks(p.data)
    [] p.type = "thinking" -> splitThinkingBlocks(p.data)
    [] OTHER -> <<>>

\* the for loop over parts: a part is rendered only while fewer than MAX_BLOCKS
\* blocks have been produced
\* mutant of renderParts: the blocks of a segment are put before those of
\* the segments rendered so far
RECURSIVE renderParts_reverse(_, _, _)
renderParts_reverse(parts, i, rendered) ==
  IF i > Len(parts) \/ Len(rendered) >= MAX_BLOCKS THEN rendered
  ELSE renderParts_reverse(parts, i + 1, partBlocks(parts[i]) \o rendered)

RECURSIVE renderParts(_, _, _)
renderParts(parts, i, rendered) ==
  IF i > Len(parts) \/ Len(rendered) >= MAX_BLOCKS THEN rendered
  ELSE renderParts(parts, i + 1, rendered \o partBlocks(parts[i]))

\* the trailing text that has not been flushed into a part yet
withCurrentText(acc, rendered) ==
  IF acc.currentText # <<>> /\ Len(rendered) < MAX_BLOCKS
  THEN rendered \o splitTextBlocks(acc.currentText) ELSE rendered

\* mutant of withStatus: the in-progress indicator is appended after the
\* usage line of a finished run as well
withStatus_always(acc, rendered) ==
  IF Len(rendered) >= MAX_BLOCKS THEN rendered
  ELSE IF acc.tokenInfo # <<>>
       THEN rendered \o <<contextBlock(usageLine(acc.tokenInfo[1])), contextBlock(ThinkingLabel)>>
       ELSE Append(rendered, contextBlock(ThinkingLabel))

\* the status line: the in-progress indicator, or the token usage
withStatus(acc, rendered) ==
  IF Len(rendered) >= MAX_BLOCKS THEN rendered
  ELSE IF ~acc.finished THEN Append(rendered, contextBlock(ThinkingLabel))
  ELSE IF acc.tokenInfo # <<>>
       THEN Append(rendered, contextBlock(usageLine(acc.tokenInfo[1])))
       ELSE rendered

\* mutant of truncateBlocks: the notice is appended without cutting
truncateBlocks_noSplice(rendered) ==
  IF Len(rendered) >= MAX_BLOCKS
  THEN Append(rendered, contextBlock(TruncatedLabel))
  ELSE rendered

truncateBlocks(rendered) ==
  IF Len(rendered) >= MAX_BLOCKS
  THEN Append(SubSeq(rendered, 1, MAX_BLOCKS), contextBlock(TruncatedLabel))
  ELSE rendered

\* mutant of orPlaceholder: an empty render is returned as it is
orPlaceholder_none(rendered) == rendered

orPlaceholder(rendered) ==
  IF rendered = <<>> THEN <<contextBlock(ProcessingLabel)>> ELSE rendered

blocks(acc) ==
  orPlaceholder(truncateBlocks(withStatus(acc,
    withCurrentText(acc, renderParts(acc.parts, 1, <<>>)))))

\* ------------------------------------------------------------ opencode.js
\* The events a process can print.  An event may or may not carry a sessionID.
Events ==
  { [type |-> "text", sessionID |-> "sess-42", part |-> [text |-> <<"h", "i">>]],
    [type |-> "step_finish", sessionID |-> "sess-7",
     part |-> [reason |-> "stop", tokens |-> [input |-> 10, output |-> 5]]] }

\* a string or null taken as a condition: null, undefined and "" are falsy
Truthy(v) == v # Null /\ v # ""

\* mutant of trackSession: the first handle seen is kept
trackSession_first(lastSessionID, event) ==
  IF lastSessionID = Null /\ Truthy(Get(event, "sessionID", Null))
  THEN event.sessionID ELSE lastSessionID

\* if (event.sessionID) lastSessionID = event.sessionID
trackSession(lastSessionID, event) ==
  IF Truthy(Get(event, "sessionID", Null)) THEN event.sessionID ELSE lastSessionID

\* ---- the child's stdout.  A byte is "\n", " ", a one-byte character of the
\* JSON text, or one of the two bytes C3 A9 of a two-byte UTF-8 character.
\* chunk.toString(): an incomplete sequence decodes to U+FFFD
RECURSIVE decode(_)
decode(bytes) ==
  IF bytes = <<>> THEN <<>>
  ELSE IF Head(bytes) = "C3"
       THEN IF Len(bytes) >= 2 /\ bytes[2] = "A9"
            THEN <<"U+00E9">> \o decode(SubSeq(bytes, 3, Len(bytes)))
            ELSE <<"U+FFFD">> \o decode(Tail(bytes))
  ELSE IF Head(bytes) = "A9" THEN <<"U+FFFD">> \o decode(Tail(bytes))
  ELSE <<Head(bytes)>> \o decode(Tail(bytes))

\* str.split("\n")
RECURSIVE split(_)
split(str) ==
  LET hits == {i \in 1..Len(str) : str[i] = "\n"}
  IN IF hits = {} THEN <<str>>
     ELSE LET i == CHOOSE k \in hits : \A j \in hits : k <= j
          IN <<SubSeq(str, 1, i - 1)>> \o split(SubSeq(str, i + 1, Len(str)))

Whitespace == {" ", "\n"}

RECURSIVE trimStart(_)
trimStart(str) ==
  IF str # <<>> /\ Head(str) \in Whitespace THEN trimStart(Tail(str)) ELSE str

RECURSIVE trimEnd(_)
trimEnd(str) ==
  IF str # <<>> /\ str[Len(str)] \in Whitespace
  THEN trimEnd(SubSeq(str, 1, Len(str) - 1)) ELSE str

trim(str) == trimEnd(trimStart(str))

\* The JSON texts of the model: the literal null (the character "n"), and an
\* object "{" members "}" whose members are "a", "b", "e" (a sessionID
\* member with the value sess-a, sess-b or the empty string), the characters
\* of its text, and spaces.  Anything else is not JSON.
HandleOf == [a |-> "sess-a", b |-> "sess-b", e |-> ""]
TextChars == {"U+00E9", "U+FFFD"}

IsObjectText(text) ==
  /\ Len(text) >= 2
  /\ text[1] = "{"
  /\ text[Len(text)] = "}"
  /\ \A i \in 2..Len(text) - 1 : text[i] \in DOMAIN HandleOf \cup TextChars \cup {" "}

\* the object a text denotes: a repeated member takes its last value
objectOf(text) ==
  LET handles == {i \in 1..Len(text) : text[i] \in DOMAIN HandleOf}
      last == CHOOSE i \in handles : \A j \in handles : j <= i
      chars == SelectSeq(text, LAMBDA c : c \in TextChars)
  IN IF handles = {} THEN [type |-> "text", part |-> [text |-> chars]]
     ELSE [type |-> "text", sessionID |-> HandleOf[text[last]], part |-> [text |-> chars]]

\* JSON.parse(text): whether it returns, whether it returns null, and the
\* object returned otherwise
JSONparse(text) ==
  IF text = <<"n">> THEN [ok |-> TRUE, isNull |-> TRUE, value |-> EmptyObject]
  ELSE IF IsObjectText(text) THEN [ok |-> TRUE, isNull |-> FALSE, value |-> objectOf(text)]
  ELSE [ok |-> FALSE, isNull |-> FALSE, value |-> EmptyObject]

DEFAULT_MODEL == "anthropic/claude-opus-4-6"

\* for (const f of opts.files) args.push("-f", f)
RECURSIVE fileArgs(_)
fileArgs(files) ==
  IF files = <<>> THEN <<>> ELSE <<"-f", Head(files)>> \o fileArgs(Tail(files))

\* an option that is pushed with its flag only when it is set
optionArgs(flag, value) == IF Truthy(value) THEN <<flag, value>> ELSE <<>>

\* mutant of buildArgs: the model flag is left out when no model is requested
buildArgs_noDefault(opts) ==
  <<"run", "--format", "json", "--thinking">>
    \o optionArgs("--session", opts.sessionID)
    \o optionArgs("-m", opts.model)
    \o optionArgs("--agent", opts.agent)
    \o optionArgs("--command", opts.command)
    \o optionArgs("--dir", opts.directory)
    \o fileArgs(opts.files)
    \o <<opts.message>>

\* the argument list of runOpencode
buildArgs(opts) ==
  <<"run", "--format", "json", "--thinking">>
    \o optionArgs("--session", opts.sessionID)
    \o (IF Truthy(opts.model) THEN <<"-m", opts.model>> ELSE <<"-m", DEFAULT_MODEL>>)
    \o optionArgs("--agent", opts.agent)
    \o optionArgs("--command", opts.command)
    \o optionArgs("--dir", opts.directory)
    \o fileArgs(opts.files)
    \o <<opts.message>>

Signal(type, payload) == [type |-> type, payload |-> payload]

\* mutant of emitLine: a line that does not parse is reported as an error
emitLine_strict(r, text) ==
  LET parsed == JSONparse(text)
  IN IF ~parsed.ok THEN [r EXCEPT !.signals = Append(@, Signal("error", EmptyObject))]
     ELSE IF parsed.isNull THEN r
     ELSE [r EXCEPT !.lastSessionID = trackSession(@, parsed.value),
                    !.signals = Append(@, Signal("event", parsed.value))]

\* the body of the try block for one trimmed, non-empty line: JSON.parse
\* throws on a text that is not JSON and event.sessionID throws on null;
\* both are caught and ignored
emitLine(r, text) ==
  LET parsed == JSONparse(text)
  IN IF ~parsed.ok \/ parsed.isNull THEN r
     ELSE [r EXCEPT !.lastSessionID = trackSession(@, parsed.value),
                    !.signals = Append(@, Signal("event", parsed.value))]

\* for (const line of lines)
RECURSIVE emitLines(_, _, _)
emitLines(r, lines, i) ==
  IF i > Len(lines) THEN r
  ELSE emitLines(IF trim(lines[i]) = <<>> THEN r ELSE emitLine(r, trim(lines[i])),
                 lines, i + 1)

\* child.stdout.on("data")
onData(r, chunk) ==
  LET buffered == r.buffer \o decode(chunk)
      lines == split(buffered)
  IN emitLines([r EXCEPT !.buffer = lines[Len(lines)]],
               SubSeq(lines, 1, Len(lines) - 1), 1)

\* mutant of flushBuffer: the trailing partial line is dropped
flushBuffer_drop(r) == r

\* the close handler before it emits done
flushBuffer(r) == IF trim(r.buffer) # <<>> THEN emitLine(r, trim(r.buffer)) ELSE r

\* ----------------------------------------------------------------- app.js
VARIABLES
  threads,          \* store.js: the Map threadTs -> thread
  run,              \* per thread, its latest processMessage call
  procCount,        \* per thread, the spawned processes that have not closed
  activeProcesses,  \* app.js: threads whose emitter is registered for shutdown
  pickerPosting,    \* threads whose showFolderPicker awaits chat.postMessage
  folderTasks,      \* folderSelected calls awaiting the picker chat.update
  nextMsg,          \* inbound requests received so far
  clicks,           \* folder-select clicks received so far
  calls,            \* history: per thread, the runWithQueue calls in call order
  enqlog,           \* history: per thread, the messages appended to the queue
  started,          \* history: per thread, the processMessage calls in call order
  notices,          \* history: per thread, the 'Queued' notices posted
  reported,         \* history: per thread, the sessionID of the latest done signal
  runner,           \* opencode.js: one runOpencode call and its child process
  spawnArgs,        \* opencode.js: the options of a call and the argument list built
  format,           \* formatter.js: one accumulator and what was rendered from it
  chunker,          \* formatter.js: one splitAtBoundary call and what it returned
  storeCall,        \* store.js: the latest upsertThread call on a store taken on its own
  inbound           \* app.js: the latest Slack event delivered to a bolt handler

appVars == <<threads, run, procCount, activeProcesses, pickerPosting, folderTasks,
             nextMsg, clicks, calls, enqlog, started, notices, reported>>

\* the state of the modules taken on their own
pureVars == <<runner, spawnArgs, format, chunker, storeCall>>

\* the state outside the orchestrator
sideVars == <<pureVars, inbound>>

vars == <<appVars, sideVars>>

\* A run that has resolved keeps its record until the thread's next
\* processMessage call replaces it; what is then still in flight for the old
\* run (updates of its own Slack message) no longer touches any state here.
Live(t) == run[t].pc \in {"posting", "active"}
Running(t) == run[t].proc = "running"

\* mutant of IsBusy: the busy guard of runWithQueue is missing
IsBusy_never(map, threadTs) == FALSE

\* thread?.busy
IsBusy(map, threadTs) == HasThread(map, threadTs) /\ map[threadTs].busy

\* mutant of Enqueue: the message is put at the head of the queue
Enqueue_front(queue, message) == <<message>> \o queue

\* [...queue, message]
Enqueue(queue, message) == Append(queue, message)

\* mutant of ShiftNext: pop() instead of shift()
ShiftNext_pop(queued) == queued[Len(queued)]

\* queued.shift(): the entry taken and the entries left
ShiftNext(queued) == Head(queued)
ShiftRest(queued) == Tail(queued)

\* mutant of DrainRead: the drain loop uses the queue of the thread object it
\* read before the run instead of reading the store again
DrainRead_stale(map, threadTs, snapshot) == snapshot.queue

\* getThread(threadTs)?.queue ?? [] as read by the drain loop; snapshot is the
\* thread object processMessage read when the finished run began
DrainRead(map, threadTs, snapshot) ==
  IF HasThread(map, threadTs) THEN map[threadTs].queue ELSE <<>>

NoRun ==
  [message |-> Null, command |-> Null, origin |-> Null, thread |-> DefaultThread,
   pc |-> "none", proc |-> "none", accumulator |-> NewAccumulator,
   sessionArg |-> Null, commandArg |-> Null, lastSessionID |-> Null, emitted |-> 0,
   updatePending |-> FALSE, timers |-> 0, messageTs |-> 0, targets |-> {},
   shown |-> <<>>, inflight |-> <<>>, terminal |-> <<>>, done |-> <<>>]

\* processMessage up to its first await: the thread is read, the accumulator
\* created and the initial post issued
NewRun(map, threadTs, message, command, origin) ==
  [NoRun EXCEPT !.message = message, !.command = command, !.origin = origin,
                !.thread = map[threadTs], !.pc = "posting"]

\* seen: how many messages had been appended to the queue when the run began;
\* directory: thread.directory as processMessage read it
StartEntry(message, command, origin, seen, directory) ==
  [message |-> message, command |-> command, origin |-> origin, seen |-> seen,
   directory |-> directory]

EnqEntry(message, via) == [message |-> message, via |-> via]

processMessage(map, threadTs, message, command, origin) ==
  /\ run' = [run EXCEPT ![threadTs] = NewRun(map, threadTs, message, command, origin)]
  /\ started' = [started EXCEPT ![threadTs] =
                   Append(@, StartEntry(message, command, origin, Len(enqlog[threadTs]),
                                        map[threadTs].directory))]

\* runWithQueue, called with the store in state map
runWithQueue(map, threadTs, message, command) ==
  /\ calls' = [calls EXCEPT ![threadTs] = Append(@, [message |-> message, command |-> command])]
  /\ IF IsBusy(map, threadTs)
     THEN /\ threads' = upsertThread(map, threadTs,
                                     [queue |-> Enqueue(map[threadTs].queue, message)])
          /\ enqlog' = [enqlog EXCEPT ![threadTs] = Append(@, EnqEntry(message, "busy"))]
          /\ notices' = [notices EXCEPT ![threadTs] = @ + 1]
          /\ UNCHANGED <<run, started>>
     ELSE /\ LET busyMap == upsertThread(map, threadTs, [busy |-> TRUE])
             IN /\ threads' = busyMap
                /\ processMessage(busyMap, threadTs, message, command, "direct")
          /\ UNCHANGED <<enqlog, notices>>

\* showFolderPicker for a thread without pickerTs: chat.postMessage is awaited
showFolderPicker(threadTs) == pickerPosting' = pickerPosting \cup {threadTs}

MsgText(n) == ToString(n)

\* mutant of AwaitsFolder: no thread is taken to wait for a folder
AwaitsFolder_never(thread) == FALSE

\* (thread.pendingMessage || thread.pendingCommand) && !thread.directory
AwaitsFolder(thread) ==
  /\ thread.pendingMessage # Null \/ thread.pendingCommand # Null
  /\ thread.directory = Null

\* handleMessage for a text that is not a slash command; directory is the
\* path of a leading dir: directive, or Null
handleMessage(threadTs, directory) ==
  /\ nextMsg < MaxMsgs
  /\ nextMsg' = nextMsg + 1
  /\ UNCHANGED <<procCount, activeProcesses, folderTasks, clicks, reported>>
  /\ LET message == MsgText(nextMsg + 1)
         map == IF directory # Null
                THEN upsertThread(threads, threadTs, [directory |-> directory])
                ELSE threads
     IN IF ~HasThread(threads, threadTs) /\ directory = Null
        THEN /\ threads' = upsertThread(threads, threadTs, [pendingMessage |-> message])
             /\ showFolderPicker(threadTs)
             /\ UNCHANGED <<run, calls, enqlog, started, notices>>
        ELSE IF AwaitsFolder(map[threadTs])
        THEN /\ threads' = upsertThread(map, threadTs,
                                        [queue |-> Enqueue(map[threadTs].queue, message)])
             /\ enqlog' = [enqlog EXCEPT ![threadTs] = Append(@, EnqEntry(message, "held"))]
             /\ UNCHANGED <<run, calls, started, notices, pickerPosting>>
        ELSE /\ runWithQueue(map, threadTs, message, Null)
             /\ UNCHANGED pickerPosting

Message(threadTs, directory) == handleMessage(threadTs, directory) /\ UNCHANGED sideVars

\* handleInit: the !init command
handleInit(map, threadTs) ==
  IF ~HasThread(map, threadTs)
  THEN /\ threads' = upsertThread(map, threadTs,
                                  [pendingMessage |-> Null, pendingCommand |-> "init"])
       /\ showFolderPicker(threadTs)
       /\ UNCHANGED <<run, calls, enqlog, started, notices>>
  ELSE IF map[threadTs].directory = Null
  THEN /\ threads' = map
       /\ UNCHANGED <<run, calls, enqlog, started, notices, pickerPosting>>
  ELSE /\ runWithQueue(map, threadTs, INIT_MESSAGE, "init")
       /\ UNCHANGED pickerPosting

InitCommand(threadTs) ==
  /\ nextMsg < MaxMsgs
  /\ nextMsg' = nextMsg + 1
  /\ UNCHANGED <<procCount, activeProcesses, folderTasks, clicks, reported>>
  /\ handleInit(threads, threadTs)
  /\ UNCHANGED sideVars

\* showFolderPicker after its chat.postMessage: pickerTs is stored on success
PickerPosted(threadTs, ok) ==
  /\ threadTs \in pickerPosting
  /\ pickerPosting' = pickerPosting \ {threadTs}
  /\ threads' = IF ok THEN upsertThread(threads, threadTs, [pickerTs |-> "picker"]) ELSE threads
  /\ UNCHANGED <<run, procCount, activeProcesses, folderTasks, nextMsg, clicks, calls,
                 enqlog, started, notices, reported>>
  /\ UNCHANGED sideVars

\* folderSelected up to the await of the picker update (the picker is shown)
folderAction(threadTs, limit) ==
  /\ clicks < limit
  /\ HasThread(threads, threadTs)
  /\ threads[threadTs].pickerTs # Null
  /\ clicks' = clicks + 1
  /\ folderTasks' = folderTasks \cup
       {[id |-> clicks + 1, threadTs |-> threadTs, dir |-> PickedDir,
         pendingMessage |-> threads[threadTs].pendingMessage,
         pendingCommand |-> threads[threadTs].pendingCommand]}
  /\ UNCHANGED <<threads, run, procCount, activeProcesses, pickerPosting, nextMsg, calls,
                 enqlog, started, notices, reported>>

FolderClick(threadTs) == folderAction(threadTs, MaxClicks) /\ UNCHANGED sideVars

\* folderSelected after the await (the update's failure is caught)
FolderSelected(task) ==
  /\ task \in folderTasks
  /\ folderTasks' = folderTasks \ {task}
  /\ UNCHANGED <<procCount, activeProcesses, nextMsg, clicks, reported>>
  /\ LET map == upsertThread(threads, task.threadTs,
                  [directory |-> task.dir, pendingMessage |-> Null, pendingCommand |-> Null,
                   pickerTs |-> Null, browsePath |-> Null])
     IN IF task.pendingCommand # Null
        THEN handleInit(map, task.threadTs)
        ELSE IF task.pendingMessage # Null
        THEN /\ runWithQueue(map, task.threadTs, task.pendingMessage, Null)
             /\ UNCHANGED pickerPosting
        ELSE /\ threads' = map
             /\ UNCHANGED <<run, calls, enqlog, started, notices, pickerPosting>>
  /\ UNCHANGED sideVars

\* ---- the bolt handlers: the auth guard before anything else
\* mutant of isAllowed: every user is let in
isAllowed_all(userId) == TRUE

isAllowed(userId) == userId = ALLOWED_USER_ID

\* a handler returns at its auth guard (the mention handler first answers
\* that the user is not authorized): no state of the bridge is touched
Rejected(kind, user) ==
  /\ inbound.rejected < MaxRejected
  /\ inbound' = [kind |-> kind, user |-> user, rejected |-> inbound.rejected + 1]
  /\ UNCHANGED appVars

Accepted(kind, user) == inbound' = [inbound EXCEPT !.kind = kind, !.user = user]

\* bolt.event("message") and bolt.event("app_mention") for a text that is
\* not a slash command
BoltMessage(kind, user, threadTs, directory) ==
  /\ kind \in {"message", "app_mention"}
  /\ user \in Users
  /\ IF isAllowed(user)
     THEN handleMessage(threadTs, directory) /\ Accepted(kind, user)
     ELSE Rejected(kind, user)
  /\ UNCHANGED pureVars

\* bolt.action(/^folder_/) for a select button
BoltFolderAction(user, threadTs) ==
  /\ user \in Users
  /\ IF isAllowed(user)
     THEN folderAction(threadTs, MaxClicks) /\ Accepted("folder", user)
     ELSE Rejected("folder", user)
  /\ UNCHANGED pureVars

\* ---- processMessage after the initial post
SpawnOutcomes == {"running", "spawnfail"}

\* mutant of SessionArg: every run starts a new session
SessionArg_none(snapshot) == Null

\* the --session argument of the run
SessionArg(snapshot) == snapshot.sessionID

\* const initial = await client.chat.postMessage(...): the message exists and
\* shows the initial render; runOpencode spawns the process.  messageTs, the
\* ts of the message just created, is the number of the run in its thread.
InitialPostOk(t, outcome) ==
  /\ run[t].pc = "posting"
  /\ outcome \in SpawnOutcomes
  /\ run' = [run EXCEPT ![t] =
               [@ EXCEPT !.pc = "active", !.proc = outcome,
                         !.messageTs = Len(started[t]),
                         !.shown = blocks(run[t].accumulator),
                         !.sessionArg = SessionArg(run[t].thread),
                         !.commandArg = run[t].command,
                         !.lastSessionID = SessionArg(run[t].thread)]]
  /\ procCount' = [procCount EXCEPT ![t] = IF outcome = "running" THEN @ + 1 ELSE @]
  /\ activeProcesses' = activeProcesses \cup {t}
  /\ UNCHANGED <<threads, pickerPosting, folderTasks, nextMsg, clicks, calls, enqlog,
                 started, notices, reported>>
  /\ UNCHANGED sideVars

\* the initial chat.postMessage rejects: processMessage and runWithQueue throw
InitialPostFail(t) ==
  /\ run[t].pc = "posting"
  /\ run' = [run EXCEPT ![t] = [@ EXCEPT !.pc = "thrown"]]
  /\ UNCHANGED <<threads, procCount, activeProcesses, pickerPosting, folderTasks, nextMsg,
                 clicks, calls, enqlog, started, notices, reported>>
  /\ UNCHANGED sideVars

\* mutant of scheduleUpdate: a timer is set for every event
scheduleUpdate_each(r) == [r EXCEPT !.updatePending = TRUE, !.timers = @ + 1]

\* scheduleUpdate; timers counts the timers set and neither fired nor cleared
scheduleUpdate(r) ==
  IF r.updatePending THEN r
  ELSE [r EXCEPT !.updatePending = TRUE, !.timers = @ + 1]

\* clearTimeout(updateTimer): the timer set last is cleared if it is pending
clearTimeout(timers) == IF timers > 0 THEN timers - 1 ELSE 0

\* a stdout line parsed by the runner and handed to emitter.on("event")
onEvent(t, event, limit) ==
  /\ Running(t)
  /\ run[t].emitted < limit
  /\ event \in Events
  /\ run' = [run EXCEPT ![t] =
               scheduleUpdate([@ EXCEPT !.emitted = @ + 1,
                                        !.lastSessionID = trackSession(@, event),
                                        !.accumulator = push(@, event)])]
  /\ UNCHANGED <<threads, procCount, activeProcesses, pickerPosting, folderTasks, nextMsg,
                 clicks, calls, enqlog, started, notices, reported>>
  /\ UNCHANGED sideVars

ProcEvent(t, event) == onEvent(t, event, MaxEvents)

Publish(kind, render) == [kind |-> kind, blocks |-> render]

\* the setTimeout callback of scheduleUpdate up to its await
TimerFire(t) ==
  /\ run[t].timers > 0
  /\ run' = [run EXCEPT ![t] =
               [@ EXCEPT !.updatePending = FALSE, !.timers = @ - 1,
                         !.targets = @ \cup {run[t].messageTs},
                         !.inflight = Append(@, Publish("periodic", blocks(run[t].accumulator)))]]
  /\ UNCHANGED <<threads, procCount, activeProcesses, pickerPosting, folderTasks, nextMsg,
                 clicks, calls, enqlog, started, notices, reported>>
  /\ UNCHANGED sideVars

errorBanner == markdownSection(<<":x: *OpenCode error:*">>)
exitWarning(exitCode) == markdownSection(<<":warning: OpenCode exited with code ", ToString(exitCode)>>)

\* emitter.on("error") up to its await; node delivers it when the spawn failed
ProcError(t) ==
  /\ run[t].proc = "spawnfail"
  /\ activeProcesses' = activeProcesses \ {t}
  /\ run' = [run EXCEPT ![t] =
               [@ EXCEPT !.proc = "errored", !.timers = clearTimeout(@),
                         !.targets = @ \cup {run[t].messageTs},
                         !.inflight = Append(@, Publish("error", <<errorBanner>>)),
                         !.terminal = Append(@, Publish("error", <<errorBanner>>))]]
  /\ UNCHANGED <<threads, procCount, pickerPosting, folderTasks, nextMsg, clicks, calls,
                 enqlog, started, notices, reported>>
  /\ UNCHANGED sideVars

\* mutant of persistSession: the reported handle is not stored
persistSession_skip(map, threadTs, sessionID) == map

\* if (sessionID) upsertThread(threadTs, { sessionID })
persistSession(map, threadTs, sessionID) ==
  IF sessionID # Null THEN upsertThread(map, threadTs, [sessionID |-> sessionID]) ELSE map

\* the render of the final update
finalRender(acc, exitCode) ==
  LET b == blocks(acc)
  IN IF exitCode # 0 /\ Len(b) <= 1 THEN <<exitWarning(exitCode)>> \o b ELSE b

\* what the runner's close handler emits before done: the event parsed from a
\* non-empty trailing partial line, if any
Flushes == {<<>>} \cup {<<e>> : e \in Events}

\* the child's close: the runner flushes its buffer and emits done, and
\* emitter.on("event") and emitter.on("done") run up to the await of the final
\* update.  A failed spawn printed nothing and node reports a non-zero code.
ProcClose(t, exitCode, flush) ==
  /\ \/ Running(t) /\ exitCode \in ExitCodes
                   /\ flush \in Flushes
                   /\ (flush = <<>> \/ run[t].emitted < MaxEvents)
     \/ run[t].proc = "errored" /\ exitCode \in ExitCodes \ {0} /\ flush = <<>>
  /\ LET flushed == IF flush = <<>> THEN run[t]
                    ELSE scheduleUpdate([run[t] EXCEPT
                           !.emitted = @ + 1,
                           !.lastSessionID = trackSession(@, flush[1]),
                           !.accumulator = push(@, flush[1])])
         render == finalRender(flushed.accumulator, exitCode)
     IN /\ threads' = persistSession(threads, t, flushed.lastSessionID)
        /\ reported' = [reported EXCEPT ![t] = flushed.lastSessionID]
        /\ run' = [run EXCEPT ![t] =
                     [flushed EXCEPT !.proc = "closed", !.timers = clearTimeout(@),
                          !.targets = @ \cup {run[t].messageTs},
                          !.done = Append(@, [sessionID |-> flushed.lastSessionID,
                                              exitCode |-> exitCode]),
                          !.inflight = Append(@, Publish("final", render)),
                          !.terminal = Append(@, Publish("final", render))]]
  /\ activeProcesses' = activeProcesses \ {t}
  /\ procCount' = [procCount EXCEPT ![t] = IF Running(t) THEN @ - 1 ELSE @]
  /\ UNCHANGED <<pickerPosting, folderTasks, nextMsg, clicks, calls, enqlog, started, notices>>
  /\ UNCHANGED sideVars

RemoveAt(seq, i) == SubSeq(seq, 1, i - 1) \o SubSeq(seq, i + 1, Len(seq))

\* mutant of drain: busy is cleared without looking at the queue
drain_idle(map, settled, threadTs) ==
  /\ threads' = upsertThread(map, threadTs, [busy |-> FALSE])
  /\ run' = settled
  /\ UNCHANGED started

\* the drain loop of runWithQueue once processMessage has returned: the queue
\* is read again; its head is run next, or busy is cleared
drain(map, settled, threadTs) ==
  LET queued == DrainRead(map, threadTs, settled[threadTs].thread)
  IN IF Len(queued) > 0
     THEN LET nextMap == upsertThread(map, threadTs, [queue |-> ShiftRest(queued)])
          IN /\ threads' = nextMap
             /\ processMessage(nextMap, threadTs, ShiftNext(queued), Null, "queue")
     ELSE /\ threads' = upsertThread(map, threadTs, [busy |-> FALSE])
          /\ run' = settled
          /\ UNCHANGED started

\* mutant of Resolves: the done handler never calls resolve()
Resolves_errorOnly(kind) == kind = "error"

\* whether resolve() is called after the awaited update of this handler
Resolves(kind) == kind \in {"final", "error"}

\* an awaited chat.update of the thread's run settles.  A failure is caught
\* and logged.  The update of the error handler settles after the child's
\* close was delivered: close follows a failed spawn within the same turns of
\* the event loop, long before a network round trip ends.
PublishDone(t, i, ok) ==
  /\ i \in 1..Len(run[t].inflight)
  /\ (run[t].inflight[i].kind = "error" => run[t].proc = "closed")
  /\ LET p == run[t].inflight[i]
         settled == [run EXCEPT ![t] =
                       [@ EXCEPT !.inflight = RemoveAt(@, i),
                                 !.shown = IF ok THEN p.blocks ELSE @,
                                 !.pc = IF Resolves(p.kind) /\ @ = "active" THEN "resolved" ELSE @]]
     IN IF Resolves(p.kind) /\ run[t].pc = "active"
        THEN drain(threads, settled, t)
        ELSE /\ run' = settled
             /\ UNCHANGED <<threads, started>>
  /\ UNCHANGED <<procCount, activeProcesses, pickerPosting, folderTasks, nextMsg, clicks,
                 calls, enqlog, notices, reported>>
  /\ UNCHANGED sideVars

\* mutant of shutdown: no emitter is aborted
shutdown_none(active) == {}

\* shutdown(signal): the emitters whose abort() is called, which sends SIGTERM
\* to their child, before process.exit(0)
shutdown(active) == {emitter \in active : TRUE}

InitApp ==
  /\ threads = [t \in {} |-> DefaultThread]
  /\ run = [t \in ThreadIds |-> NoRun]
  /\ procCount = [t \in ThreadIds |-> 0]
  /\ activeProcesses = {}
  /\ pickerPosting = {}
  /\ folderTasks = {}
  /\ nextMsg = 0
  /\ clicks = 0
  /\ calls = [t \in ThreadIds |-> <<>>]
  /\ enqlog = [t \in ThreadIds |-> <<>>]
  /\ started = [t \in ThreadIds |-> <<>>]
  /\ notices = [t \in ThreadIds |-> 0]
  /\ reported = [t \in ThreadIds |-> Null]

\* before runOpencode is called
NoRunner ==
  [child |-> "none", handle |-> Null, stdout |-> <<>>, received |-> <<>>, text |-> <<>>,
   buffer |-> <<>>, lastSessionID |-> Null, signals |-> <<>>, exitCode |-> Null]
\* before the argument list of a call is built
NoOptions ==
  [message |-> "", sessionID |-> Null, model |-> Null, agent |-> Null, command |-> Null,
   directory |-> Null, files |-> <<>>]
NoArgs == [built |-> FALSE, opts |-> NoOptions, args |-> <<>>]

\* createAccumulator(): a fresh accumulator nothing was rendered from.
\* shadow receives the same pushes and is never handed to blocks().
\* events: the events pushed so far, in order
NewFormat ==
  [accumulator |-> NewAccumulator, shadow |-> NewAccumulator, pushes |-> 0,
   events |-> <<>>,
   lastOp |-> "new", streak |-> 0, out |-> <<>>, final |-> <<>>, exitCode |-> 0]

\* before any Slack event is delivered
NoInbound == [kind |-> Null, user |-> Null, rejected |-> 0]

\* before any upsertThread call on the store taken on its own
NoStoreCall ==
  [count |-> 0, threadTs |-> Null, patch |-> EmptyObject,
   before |-> [t \in {} |-> DefaultThread], returned |-> <<>>]

\* before splitAtBoundary is called
NoChunks == [applied |-> FALSE, text |-> <<>>, max |-> 0, chunks |-> <<>>]

Init ==
  /\ InitApp
  /\ runner = NoRunner
  /\ spawnArgs = NoArgs
  /\ format = NewFormat
  /\ chunker = NoChunks
  /\ storeCall = NoStoreCall
  /\ inbound = NoInbound

\* one conversation, every input
Next ==
  \/ \E d \in {Null, DirectiveDir} : Message(MainThread, d)
  \/ InitCommand(MainThread)
  \/ \E ok \in BOOLEAN : PickerPosted(MainThread, ok)
  \/ FolderClick(MainThread)
  \/ \E task \in folderTasks : FolderSelected(task)
  \/ \E o \in SpawnOutcomes : InitialPostOk(MainThread, o)
  \/ InitialPostFail(MainThread)
  \/ \E e \in Events : ProcEvent(MainThread, e)
  \/ TimerFire(MainThread)
  \/ ProcError(MainThread)
  \/ \E c \in ExitCodes, f \in Flushes : ProcClose(MainThread, c, f)
  \/ \E i \in 1..MaxEvents + 3, ok \in BOOLEAN : PublishDone(MainThread, i, ok)

Spec == Init /\ [][Next]_vars

\* two conversations side by side, MaxMsgsTwo requests in all
NextTwo ==
  \/ nextMsg < MaxMsgsTwo /\ \E t \in ThreadIds, d \in {Null, DirectiveDir} : Message(t, d)
  \/ nextMsg < MaxMsgsTwo /\ \E t \in ThreadIds : InitCommand(t)
  \/ \E t \in ThreadIds, ok \in BOOLEAN : PickerPosted(t, ok)
  \/ \E t \in ThreadIds : FolderClick(t)
  \/ \E task \in folderTasks : FolderSelected(task)
  \/ \E t \in ThreadIds, o \in SpawnOutcomes : InitialPostOk(t, o)
  \/ \E t \in ThreadIds : InitialPostFail(t)
  \/ \E t \in ThreadIds, e \in Events : ProcEvent(t, e)
  \/ \E t \in ThreadIds : TimerFire(t)
  \/ \E t \in ThreadIds : ProcError(t)
  \/ \E t \in ThreadIds, c \in ExitCodes, f \in Flushes : ProcClose(t, c, f)
  \/ \E t \in ThreadIds, i \in 1..MaxEvents + 3, ok \in BOOLEAN : PublishDone(t, i, ok)

SpecTwo == Init /\ [][NextTwo]_vars

\* one conversation whose Slack calls all succeed; every callback that is
\* ready is eventually run by the event loop, and every spawned process
\* eventually closes
NextLive ==
  \/ nextMsg < MaxMsgsLive /\ \E d \in {Null, DirectiveDir} : Message(MainThread, d)
  \/ nextMsg < MaxMsgsLive /\ InitCommand(MainThread)
  \/ PickerPosted(MainThread, TRUE)
  \/ FolderClick(MainThread)
  \/ \E task \in folderTasks : FolderSelected(task)
  \/ \E o \in SpawnOutcomes : InitialPostOk(MainThread, o)
  \/ \E e \in Events : ProcEvent(MainThread, e)
  \/ TimerFire(MainThread)
  \/ ProcError(MainThread)
  \/ \E c \in ExitCodes, f \in Flushes : ProcClose(MainThread, c, f)
  \/ \E i \in 1..MaxEvents + 3 : PublishDone(MainThread, i, TRUE)

Fairness ==
  /\ WF_vars(\E task \in folderTasks : FolderSelected(task))
  /\ WF_vars(\E o \in SpawnOutcomes : InitialPostOk(MainThread, o))
  /\ WF_vars(TimerFire(MainThread))
  /\ WF_vars(ProcError(MainThread))
  /\ WF_vars(\E c \in ExitCodes, f \in Flushes : ProcClose(MainThread, c, f))
  /\ WF_vars(\E i \in 1..MaxEvents + 3 : PublishDone(MainThread, i, TRUE))

SpecLive == Init /\ [][NextLive]_vars /\ Fairness


\* ---- the accumulator on its own: pushes, renders and the final render of
\* the done handler
FormatEvents ==
  { [type |-> "step_start"],
    [type |-> "text", part |-> [text |-> <<"h", "i">>]],
    [type |-> "text", part |-> [text |-> <<"y", "o">>]],
    [type |-> "tool_use",
     part |-> [tool |-> "bash", callID |-> <<"c1">>,
               state |-> [status |-> "completed", input |-> [command |-> <<"l", "s">>],
                          output |-> <<"o">>]]],
    [type |-> "thinking", part |-> [thinking |-> <<"t">>]],
    [type |-> "step_finish", part |-> [reason |-> "stop"]],
    [type |-> "step_finish",
     part |-> [reason |-> "stop", tokens |-> [input |-> 10, output |-> 5]]],
    [type |-> "step_finish",
     part |-> [reason |-> "tool-calls", cost |-> 12,
               tokens |-> [total |-> 2010, input |-> 2000, output |-> 7, reasoning |-> 3,
                           cache |-> [read |-> 30, write |-> 4]]]] }

\* mutant of callBlocks: rendering flushes the text buffer into the parts
callBlocks_flush(acc) == [state |-> FlushText(acc), result |-> blocks(acc)]

\* accumulator.blocks(): the state it leaves and the array it returns
callBlocks(acc) == [state |-> acc, result |-> blocks(acc)]

FormatPush(event) ==
  /\ format.lastOp # "final"
  /\ format.pushes < MaxPushes
  /\ event \in FormatEvents
  /\ format' = [format EXCEPT !.accumulator = push(@, event),
                              !.shadow = push(@, event),
                              !.pushes = @ + 1, !.events = Append(@, event),
                              !.lastOp = "push", !.streak = 0]
  /\ UNCHANGED <<appVars, runner, spawnArgs, chunker, storeCall, inbound>>

FormatBlocks ==
  /\ format.lastOp # "final"
  /\ LET r == callBlocks(format.accumulator)
     IN format' = [format EXCEPT !.accumulator = r.state, !.out = r.result,
                                 !.lastOp = "blocks",
                                 !.streak = IF @ < 2 THEN @ + 1 ELSE @]
  /\ UNCHANGED <<appVars, runner, spawnArgs, chunker, storeCall, inbound>>

\* the done handler's render for the final update
FormatDone(exitCode) ==
  /\ format.lastOp # "final"
  /\ exitCode \in ExitCodes
  /\ format' = [format EXCEPT !.final = finalRender(format.accumulator, exitCode),
                              !.exitCode = exitCode, !.lastOp = "final"]
  /\ UNCHANGED <<appVars, runner, spawnArgs, chunker, storeCall, inbound>>

NextFormat ==
  \/ \E e \in FormatEvents : FormatPush(e)
  \/ FormatBlocks
  \/ \E c \in ExitCodes : FormatDone(c)

SpecFormat == Init /\ [][NextFormat]_vars


\* ---- one runOpencode call on its own: the child's stdout arrives in chunks
RunnerLines ==
  { <<"x">>, <<" ">>, <<"n">>, <<"{", "a", "}">>, <<" ", "{", "b", "C3", "A9", "}">>,
    <<"{", "e", "}">> }

RECURSIVE JoinLines(_, _)
JoinLines(lines, newlineAtEnd) ==
  IF lines = <<>> THEN <<>>
  ELSE IF Len(lines) = 1 THEN lines[1] \o (IF newlineAtEnd THEN <<"\n">> ELSE <<>>)
  ELSE lines[1] \o <<"\n">> \o JoinLines(Tail(lines), newlineAtEnd)

\* what a child may write before it exits
Outputs ==
  {JoinLines(ls, nl) : ls \in UNION {[1..n -> RunnerLines] : n \in 0..MaxLines},
                       nl \in BOOLEAN}

\* runOpencode(opts): the child is spawned, or the spawn fails; output is what
\* the child is going to write
RunOpencode(sessionID, output, outcome) ==
  /\ runner.child = "none"
  /\ sessionID \in {Null, "sess-0"}
  /\ outcome \in SpawnOutcomes
  /\ output \in Outputs
  /\ outcome = "spawnfail" => output = <<>>
  /\ runner' = [NoRunner EXCEPT !.child = outcome, !.handle = sessionID,
                                !.stdout = output,
                                !.lastSessionID = IF Truthy(sessionID) THEN sessionID ELSE Null]
  /\ UNCHANGED <<appVars, spawnArgs, format, chunker, storeCall, inbound>>

\* a chunk of n bytes arrives on stdout
ChildData(n) ==
  /\ runner.child = "running"
  /\ n \in 1..MaxChunk
  /\ n <= Len(runner.stdout)
  /\ LET chunk == SubSeq(runner.stdout, 1, n)
     IN runner' = [onData(runner, chunk) EXCEPT
                     !.stdout = SubSeq(@, n + 1, Len(@)),
                     !.received = @ \o chunk,
                     !.text = @ \o decode(chunk)]
  /\ UNCHANGED <<appVars, spawnArgs, format, chunker, storeCall, inbound>>

\* child.on("error"): node emits it when the spawn failed
ChildError ==
  /\ runner.child = "spawnfail"
  /\ runner' = [runner EXCEPT !.child = "errored",
                              !.signals = Append(@, Signal("error", EmptyObject))]
  /\ UNCHANGED <<appVars, spawnArgs, format, chunker, storeCall, inbound>>

\* child.on("close"): the child exited, whatever it had still to write is
\* lost; node also emits close, with a non-zero code, after a failed spawn
ChildClose(exitCode) ==
  /\ \/ runner.child = "running" /\ exitCode \in ExitCodes
     \/ runner.child = "errored" /\ exitCode \in ExitCodes \ {0}
  /\ LET flushed == flushBuffer(runner)
     IN runner' = [flushed EXCEPT
                     !.child = "closed", !.stdout = <<>>, !.exitCode = exitCode,
                     !.signals = Append(@, Signal("done",
                                   [sessionID |-> flushed.lastSessionID,
                                    exitCode |-> exitCode]))]
  /\ UNCHANGED <<appVars, spawnArgs, format, chunker, storeCall, inbound>>

NextRunner ==
  \/ \E h \in {Null, "sess-0"}, out \in Outputs, o \in SpawnOutcomes : RunOpencode(h, out, o)
  \/ \E n \in 1..MaxChunk : ChildData(n)
  \/ ChildError
  \/ \E c \in ExitCodes : ChildClose(c)

SpecRunner == Init /\ [][NextRunner]_vars


\* ---- the argument list of one runOpencode call on its own
FileNames == {"a.txt", "b.txt"}

RunOptions ==
  [message : {"hello", "fix it"}, sessionID : {Null, "sess-0"}, model : {Null, "m1"},
   agent : {Null, "plan"}, command : {Null, "init"}, directory : {Null, DirectiveDir},
   files : UNION {[1..n -> FileNames] : n \in 0..MaxFiles}]

BuildArgs(opts) ==
  /\ ~spawnArgs.built
  /\ opts \in RunOptions
  /\ spawnArgs' = [built |-> TRUE, opts |-> opts, args |-> buildArgs(opts)]
  /\ UNCHANGED <<appVars, runner, format, chunker, storeCall, inbound>>

NextArgs == \E opts \in RunOptions : BuildArgs(opts)

SpecArgs == Init /\ [][NextArgs]_vars


\* ---- rendering on its own: accumulators with up to MaxToolParts tool
\* segments and MaxThinkingParts thinking segments, as left by these events
RECURSIVE Replay(_)
Replay(events) ==
  IF events = <<>> THEN NewAccumulator
  ELSE push(Replay(SubSeq(events, 1, Len(events) - 1)), events[Len(events)])

Repeat(event, n) == [i \in 1..n |-> event]
ToolEvent == CHOOSE e \in FormatEvents : e.type = "tool_use"
ThinkingEvent == CHOOSE e \in FormatEvents : e.type = "thinking"
RenderTails ==
  {es \in UNION {[1..n -> FormatEvents] : n \in 0..2} :
     /\ Len(es) >= 1 => es[Len(es)].type \in {"text", "step_finish"}
     /\ Len(es) = 2 => es[1].type = "text" /\ es[2].type = "step_finish"}

RenderSequences ==
  UNION {{Repeat(ToolEvent, n) \o Repeat(ThinkingEvent, k) \o tail,
          Repeat(ThinkingEvent, k) \o Repeat(ToolEvent, n) \o tail} :
            n \in 0..MaxToolParts, k \in 0..MaxThinkingParts, tail \in RenderTails}

InitRender ==
  /\ InitApp
  /\ runner = NoRunner
  /\ spawnArgs = NoArgs
  /\ chunker = NoChunks
  /\ storeCall = NoStoreCall
  /\ inbound = NoInbound
  /\ format \in {[NewFormat EXCEPT !.accumulator = Replay(es), !.shadow = Replay(es),
                                   !.events = es, !.pushes = Len(es)] :
                   es \in RenderSequences}

NextRender ==
  \/ FormatBlocks
  \/ \E c \in ExitCodes : FormatDone(c)

SpecRender == InitRender /\ [][NextRender]_vars


\* ---- one splitAtBoundary call on its own
SplitChars == {"a", " ", "\n"}
Texts == UNION {[1..n -> SplitChars] : n \in 0..MaxTextLen}

SplitText(str, max) ==
  /\ ~chunker.applied
  /\ str \in Texts
  /\ max \in 1..MaxLimit
  /\ chunker' = [applied |-> TRUE, text |-> str, max |-> max,
                 chunks |-> splitAtBoundary(str, max)]
  /\ UNCHANGED <<appVars, runner, spawnArgs, format, storeCall, inbound>>

NextSplit == \E str \in Texts, max \in 1..MaxLimit : SplitText(str, max)

SpecSplit == Init /\ [][NextSplit]_vars


\* ---- tool_use events of every shape, pushed and rendered
Opt(field, present, value) == IF present THEN field :> value ELSE EmptyObject

Command == <<"l", "s", " ", "-", "l", "a">>

ToolInputs == {EmptyObject, [command |-> Command], [filePath |-> <<"f">>]}

ToolStates ==
  {Opt("status", status # Null, status) @@ Opt("input", hasInput, input)
     @@ Opt("output", output # <<Null>>, output) :
     status \in {Null, "running", "completed", "error"},
     hasInput \in BOOLEAN, input \in ToolInputs,
     output \in {<<Null>>, <<>>, <<"o">>}}

ToolUseEvents ==
  {[type |-> "tool_use",
    part |-> Opt("tool", tool # Null, tool) @@ ("callID" :> <<"c1">>)
               @@ Opt("state", hasState, state)] :
     tool \in {Null, "bash", "read", "task"}, hasState \in BOOLEAN, state \in ToolStates}

ToolPush(event) ==
  /\ format.lastOp # "final"
  /\ format.pushes < MaxToolPushes
  /\ event \in ToolUseEvents
  /\ format' = [format EXCEPT !.accumulator = push(@, event),
                              !.shadow = push(@, event),
                              !.pushes = @ + 1, !.events = Append(@, event),
                              !.lastOp = "push", !.streak = 0]
  /\ UNCHANGED <<appVars, runner, spawnArgs, chunker, storeCall, inbound>>

NextTool ==
  \/ \E event \in ToolUseEvents : ToolPush(event)
  \/ FormatBlocks

SpecTool == Init /\ [][NextTool]_vars


\* ---- the store taken on its own: upsertThread calls with any patch
Patches ==
  {Opt("busy", hasBusy, busy) @@ Opt("directory", hasDir, DirectiveDir)
     @@ Opt("sessionID", hasSession, "s1") @@ Opt("queue", hasQueue, <<"m1">>) :
     hasBusy \in BOOLEAN, busy \in BOOLEAN, hasDir \in BOOLEAN,
     hasSession \in BOOLEAN, hasQueue \in BOOLEAN}

StoreUpsert(threadTs, patch) ==
  /\ storeCall.count < MaxUpserts
  /\ threadTs \in ThreadIds
  /\ patch \in Patches
  /\ threads' = upsertThread(threads, threadTs, patch)
  /\ storeCall' = [count |-> storeCall.count + 1, threadTs |-> threadTs, patch |-> patch,
                   before |-> threads,
                   returned |-> <<upsertResult(threads, threadTs, patch)>>]
  /\ UNCHANGED <<run, procCount, activeProcesses, pickerPosting, folderTasks,
                 nextMsg, clicks, calls, enqlog, started, notices, reported>>
  /\ UNCHANGED <<runner, spawnArgs, format, chunker, inbound>>

NextStore == \E threadTs \in ThreadIds, patch \in Patches : StoreUpsert(threadTs, patch)

SpecStore == Init /\ [][NextStore]_vars


\* ---- one run of one conversation, with up to MaxRunEvents events
RunEvent(t, event) == onEvent(t, event, MaxRunEvents)

NextUpdates ==
  \/ nextMsg = 0 /\ Message(MainThread, DirectiveDir)
  \/ InitialPostOk(MainThread, "running")
  \/ \E e \in Events : RunEvent(MainThread, e)
  \/ TimerFire(MainThread)
  \/ \E c \in ExitCodes : ProcClose(MainThread, c, <<>>)
  \/ \E i \in 1..MaxRunEvents + 1, ok \in BOOLEAN : PublishDone(MainThread, i, ok)

SpecUpdates == Init /\ [][NextUpdates]_vars


\* ---- one conversation that receives events from any user
NextAuth ==
  \/ \E kind \in {"message", "app_mention"}, user \in Users, d \in {Null, DirectiveDir} :
       nextMsg < MaxMsgsTwo /\ BoltMessage(kind, user, MainThread, d)
  \/ \E user \in Users : BoltFolderAction(user, MainThread)
  \/ \E ok \in BOOLEAN : PickerPosted(MainThread, ok)
  \/ \E task \in folderTasks : FolderSelected(task)
  \/ \E o \in SpawnOutcomes : InitialPostOk(MainThread, o)
  \/ \E e \in Events : ProcEvent(MainThread, e)
  \/ TimerFire(MainThread)
  \/ ProcError(MainThread)
  \/ \E c \in ExitCodes, f \in Flushes : ProcClose(MainThread, c, f)
  \/ \E i \in 1..MaxEvents + 3 : PublishDone(MainThread, i, TRUE)

SpecAuth == Init /\ [][NextAuth]_vars


\* ---- one held request and the clicks on its folder picker
PickerClick(t) == folderAction(t, MaxPickerClicks) /\ UNCHANGED sideVars

NextClicks ==
  \/ nextMsg = 0 /\ Message(MainThread, Null)
  \/ nextMsg = 0 /\ InitCommand(MainThread)
  \/ PickerPosted(MainThread, TRUE)
  \/ PickerClick(MainThread)
  \/ \E task \in folderTasks : FolderSelected(task)
  \/ InitialPostOk(MainThread, "running")
  \/ \E e \in Events : ProcEvent(MainThread, e)
  \/ TimerFire(MainThread)
  \/ \E c \in ExitCodes : ProcClose(MainThread, c, <<>>)
  \/ \E i \in 1..MaxEvents + 3 : PublishDone(MainThread, i, TRUE)

SpecClicks == Init /\ [][NextClicks]_vars


\* ======================================================================
\* Properties
\* ======================================================================
Last(seq) == seq[Len(seq)]
Messages(log) == [i \in 1..Len(log) |-> log[i].message]
QueueOf(t) == IF HasThread(threads, t) THEN threads[t].queue ELSE <<>>
\* the messages of the runs the drain loop started, in start order
Drained(t) == Messages(SelectSeq(started[t], LAMBDA e : e.origin = "queue"))
\* this step calls runWithQueue for thread t
CallsRunWithQueue(t) == Len(calls'[t]) = Len(calls[t]) + 1
\* this step calls processMessage for thread t
CallsProcessMessage(t) == Len(started'[t]) = Len(started[t]) + 1

\* C1: in every reachable state each conversation has at most one external
\* process that was spawned and has not closed.
C1_AtMostOneProcess == \A t \in ThreadIds : procCount[t] <= 1

\* a process is running for a run the drain loop started while a further
\* request waits in the queue
C1_Witness ==
  /\ procCount[MainThread] = 1
  /\ run[MainThread].origin = "queue"
  /\ Len(QueueOf(MainThread)) > 0

\* C2: queued requests are started in the order they were enqueued, one at a
\* time: the messages appended to the queue so far are the messages the drain
\* loop has started, in that order, followed by the queue; and the drain loop
\* calls processMessage for the next request only in the step in which the
\* previous run resolves, after that run's terminal update was issued and
\* while no process of the conversation is running.
C2_Fifo == \A t \in ThreadIds : Messages(enqlog[t]) = Drained(t) \o QueueOf(t)

C2_OneAtATime ==
  \A t \in ThreadIds :
    (CallsProcessMessage(t) /\ Last(started'[t]).origin = "queue")
      => /\ run[t].pc = "active"
         /\ run[t].terminal # <<>>
         /\ procCount[t] = 0
         /\ Last(started'[t]).message = Head(QueueOf(t))

C2_QueueOrder == [](C2_Fifo) /\ [][C2_OneAtATime]_vars

\* two requests were enqueued while busy and both have been started
C2_Witness ==
  /\ notices[MainThread] = 2
  /\ Len(Drained(MainThread)) = 2
  /\ run[MainThread].proc = "running"

\* C3: a runWithQueue call for a busy conversation appends the message at the
\* tail of the queue, keeps the queued entries in order, posts one 'Queued'
\* notice, starts no run and no process, and leaves busy true.
C3_BusyCall ==
  \A t \in ThreadIds :
    (CallsRunWithQueue(t) /\ IsBusy(threads, t))
      => /\ threads'[t].queue = Append(threads[t].queue, Last(calls'[t]).message)
         /\ notices'[t] = notices[t] + 1
         /\ run' = run
         /\ started' = started
         /\ procCount' = procCount
         /\ threads'[t].busy

C3_EnqueueWhenBusy == [][C3_BusyCall]_vars

\* a second request was appended behind one that was already queued
C3_Witness ==
  /\ notices[MainThread] = 2
  /\ Len(QueueOf(MainThread)) = 2
  /\ threads[MainThread].busy

\* C4: busy is cleared only in a step that finds the queue empty, and a
\* conversation that is not busy holds no request that was enqueued while it
\* was busy: such a request, also one enqueued while a run started by the
\* drain loop was in progress, has been started by then.
C4_ClearStep ==
  \A t \in ThreadIds :
    (IsBusy(threads, t) /\ ~IsBusy(threads', t))
      => /\ threads[t].queue = <<>>
         /\ threads'[t].queue = <<>>

C4_NothingLeft ==
  \A t \in ThreadIds :
    ~IsBusy(threads, t) =>
      \A i \in 1..Len(enqlog[t]) :
        enqlog[t][i].via = "busy" => i <= Len(Drained(t))

C4_DrainBeforeIdle == [](C4_NothingLeft) /\ [][C4_ClearStep]_vars

\* the conversation is idle again after a request that was enqueued while a
\* run started by the drain loop was in progress has been run
C4_Witness ==
  /\ HasThread(threads, MainThread)
  /\ ~threads[MainThread].busy
  /\ Len(started[MainThread]) = 3
  /\ started[MainThread][2].origin = "queue"
  /\ started[MainThread][3].origin = "queue"
  /\ started[MainThread][2].seen = 1
  /\ enqlog[MainThread][2].via = "busy"

\* C6: the step in which a done signal reporting handle H is handled leaves
\* the conversation's sessionID equal to H if H is not null and unchanged if
\* H is null; and once a run that reported "sess-42" has resolved with
\* nothing appended to the queue since it began, the conversation has
\* sessionID "sess-42", is not busy and has an empty queue.
DoneHandled(t) == Len(run'[t].done) = Len(run[t].done) + 1

C6_DoneStep ==
  \A t \in ThreadIds :
    DoneHandled(t) =>
      LET H == Last(run'[t].done).sessionID
      IN threads'[t].sessionID = IF H # Null THEN H ELSE threads[t].sessionID

C6_AfterRun ==
  \A t \in ThreadIds :
    (/\ run[t].pc = "resolved"
     /\ run[t].done # <<>>
     /\ Last(run[t].done).sessionID = "sess-42"
     /\ Last(started[t]).seen = Len(enqlog[t]))
      => /\ threads[t].sessionID = "sess-42"
         /\ ~threads[t].busy
         /\ threads[t].queue = <<>>

C6_SessionPersisted == [](C6_AfterRun) /\ [][C6_DoneStep]_vars

\* a run that continued session sess-7 reported sess-42 and has resolved
C6_Witness ==
  /\ run[MainThread].pc = "resolved"
  /\ run[MainThread].sessionArg = "sess-7"
  /\ run[MainThread].done # <<>>
  /\ Last(run[MainThread].done).sessionID = "sess-42"
  /\ threads[MainThread].sessionID = "sess-42"

\* C7: every run of a conversation after its first is spawned with the handle
\* carried by the conversation's latest done signal; a run started from the
\* queue so continues the session the run before it reported.
Spawns(t) == run[t].pc = "posting" /\ run'[t].pc = "active"

C7_SpawnStep ==
  \A t \in ThreadIds :
    (Spawns(t) /\ Len(started[t]) > 1) => run'[t].sessionArg = reported[t]

C7_SessionContinued == [][C7_SpawnStep]_vars

\* a run started from the queue was spawned with the handle of the run before
C7_Witness ==
  /\ run[MainThread].origin = "queue"
  /\ run[MainThread].pc = "active"
  /\ run[MainThread].sessionArg = "sess-7"
  /\ reported[MainThread] = "sess-7"

\* C8: conversations are independent.  A step taken for one conversation
\* (an inbound request, a picker or folder step, a signal of its process, a
\* settled Slack call of its run) leaves every other conversation's thread
\* object as it was; and a runWithQueue call for a conversation that is not
\* busy starts its run in that same step, whatever the others are doing.
StepFor(t) ==
  \/ \E d \in {Null, DirectiveDir} : Message(t, d)
  \/ InitCommand(t)
  \/ \E ok \in BOOLEAN : PickerPosted(t, ok)
  \/ FolderClick(t)
  \/ \E task \in folderTasks : task.threadTs = t /\ FolderSelected(task)
  \/ \E o \in SpawnOutcomes : InitialPostOk(t, o)
  \/ InitialPostFail(t)
  \/ \E e \in Events : ProcEvent(t, e)
  \/ TimerFire(t)
  \/ ProcError(t)
  \/ \E c \in ExitCodes, f \in Flushes : ProcClose(t, c, f)
  \/ \E i \in 1..MaxEvents + 3, ok \in BOOLEAN : PublishDone(t, i, ok)

SameThread(u) ==
  /\ HasThread(threads', u) = HasThread(threads, u)
  /\ HasThread(threads, u) => threads'[u] = threads[u]

C8_Frame == \A t \in ThreadIds : StepFor(t) => \A u \in ThreadIds \ {t} : SameThread(u)

C8_StartsAtOnce ==
  \A t \in ThreadIds :
    (CallsRunWithQueue(t) /\ ~IsBusy(threads, t))
      => /\ CallsProcessMessage(t)
         /\ run'[t].pc = "posting"
         /\ run'[t].message = Last(calls'[t]).message
         /\ threads'[t].busy

C8_Independent == [][C8_Frame /\ C8_StartsAtOnce]_vars

\* the first conversation's process is still running while a request that
\* came later for the other conversation has run to completion
C8_Witness ==
  /\ Running("t1")
  /\ run["t1"].message = MsgText(1)
  /\ threads["t1"].busy
  /\ run["t2"].message = MsgText(2)
  /\ run["t2"].pc = "resolved"
  /\ run["t2"].done # <<>>
  /\ ~threads["t2"].busy
  /\ threads["t2"].sessionID # threads["t1"].sessionID

\* C5: with every Slack call succeeding and every process closing, every
\* request accepted for a conversation is run exactly once: at any time each
\* message has been started or is waiting in the queue exactly as often as it
\* was passed to runWithQueue or held for the folder pick, and a busy
\* conversation eventually is not busy, with an empty queue and a run started
\* for every accepted request.
AllMsgs == {MsgText(n) : n \in 1..MaxMsgs} \cup {INIT_MESSAGE}
Count(seq, m) == Cardinality({i \in 1..Len(seq) : seq[i] = m})
Held(t) == Messages(SelectSeq(enqlog[t], LAMBDA e : e.via = "held"))

C5_Accounted ==
  \A t \in ThreadIds : \A m \in AllMsgs :
    Count(Messages(started[t]), m) + Count(QueueOf(t), m)
      = Count(Messages(calls[t]), m) + Count(Held(t), m)

C5_Idle(t) ==
  /\ ~IsBusy(threads, t)
  /\ QueueOf(t) = <<>>
  /\ Len(started[t]) = Len(calls[t]) + Len(Held(t))

C5_EveryRequestRuns ==
  /\ [](C5_Accounted)
  /\ \A t \in ThreadIds : IsBusy(threads, t) ~> C5_Idle(t)

\* a request that was enqueued while busy has been run and the conversation
\* is idle again
C5_Witness ==
  /\ notices[MainThread] = 1
  /\ Len(started[MainThread]) = 2
  /\ run[MainThread].pc = "resolved"
  /\ C5_Idle(MainThread)

\* C9: a failing publish call never aborts a run, so a conversation is busy
\* only while a run of its drain loop is in progress (awaiting its initial
\* post or its process), and busy is cleared once the loop ends.
C9_PublishFailureNeverAborts == \A t \in ThreadIds : IsBusy(threads, t) => Live(t)

\* C10: the last terminal render issued for a run (the final update after the
\* process closed, or the error update) is never only the in-progress or
\* placeholder indicator.
OnlyIndicator(render) ==
  \/ render = <<contextBlock(ThinkingLabel)>>
  \/ render = <<contextBlock(ProcessingLabel)>>

C10_TerminalRenderReadable ==
  \A t \in ThreadIds :
    run[t].terminal # <<>> => ~OnlyIndicator(Last(run[t].terminal).blocks)

\* C11: on completion with a non-zero exit code the exit-code warning is
\* prepended to the final render if and only if the accumulator holds no real
\* content (no part and an empty text buffer), and what the accumulator
\* renders is still part of the final render.
HasContent(acc) == acc.parts # <<>> \/ acc.currentText # <<>>

C11_WarningIffNoContent ==
  (format.lastOp = "final" /\ format.exitCode # 0) =>
    /\ (format.final[1] = exitWarning(format.exitCode)) <=> ~HasContent(format.accumulator)
    /\ \/ format.final = blocks(format.accumulator)
       \/ Tail(format.final) = blocks(format.accumulator)

\* C12: when a run's emitter signals an error, the error render is published
\* to the run's message; the run then resolves, and in the step in which it
\* resolves the orchestrator does what it does on normal completion: it
\* starts the head of the queue, or sets busy to false when the queue is empty.
Errored(t) == \E i \in 1..Len(run[t].terminal) : run[t].terminal[i].kind = "error"

C12_ErrorStep ==
  \A t \in ThreadIds :
    (run[t].proc = "spawnfail" /\ run'[t].proc = "errored") =>
      /\ run'[t].inflight = Append(run[t].inflight, Publish("error", <<errorBanner>>))
      /\ run'[t].pc = "active"

C12_ResolveStep ==
  \A t \in ThreadIds :
    (Errored(t) /\ run[t].pc = "active" /\ run'[t].pc # "active") =>
      IF QueueOf(t) # <<>>
      THEN /\ threads'[t].busy
           /\ threads'[t].queue = Tail(QueueOf(t))
           /\ run'[t].pc = "posting"
           /\ run'[t].message = Head(QueueOf(t))
           /\ Len(started'[t]) = Len(started[t]) + 1
      ELSE /\ ~threads'[t].busy
           /\ run'[t].pc = "resolved"
           /\ started'[t] = started[t]

C12_ErrorThenDrain ==
  /\ [][C12_ErrorStep /\ C12_ResolveStep]_vars
  /\ \A t \in ThreadIds : (run[t].proc = "errored") ~> (run[t].pc # "active")

\* a run whose spawn failed has resolved and left the conversation idle
C12_Witness ==
  /\ Errored(MainThread)
  /\ run[MainThread].pc = "resolved"
  /\ ~IsBusy(threads, MainThread)
  /\ Len(started[MainThread]) = 2

\* C13: once the runner has emitted an error signal for a run it never emits
\* a done signal for that run.
SignalTypes(signals) == [i \in 1..Len(signals) |-> signals[i].type]
Has(seq, x) == \E i \in 1..Len(seq) : seq[i] = x

C13_ErrorTerminal ==
  ~(Has(SignalTypes(runner.signals), "error") /\ Has(SignalTypes(runner.signals), "done"))

\* C14: in every reachable state a shutdown signal would abort every process
\* that was spawned and has not closed, in every conversation: each of them is
\* in activeProcesses, the set shutdown iterates over.
C14_ShutdownAbortsAll ==
  \A t \in ThreadIds : procCount[t] > 0 => t \in shutdown(activeProcesses)

\* two conversations have a running process at the same time
C14_Witness ==
  /\ \A t \in ThreadIds : procCount[t] = 1 /\ Running(t)
  /\ shutdown(activeProcesses) = ThreadIds

\* what the runner has emitted as events, in order
Emitted ==
  LET events == SelectSeq(runner.signals, LAMBDA sig : sig.type = "event")
  IN [i \in 1..Len(events) |-> events[i].payload]

\* the lines of a text the runner has to have dealt with: those ended by a
\* newline and, once the child has closed, the trailing partial line
LinesOf(text) ==
  IF runner.child = "closed" THEN split(text)
  ELSE SubSeq(split(text), 1, Len(split(text)) - 1)

\* the values parsed from the non-blank lines that are JSON, in line order;
\* withNull: whether a line holding the literal null counts
RECURSIVE ParsedOf(_, _)
ParsedOf(lines, withNull) ==
  IF lines = <<>> THEN <<>>
  ELSE LET parsed == JSONparse(trim(Head(lines)))
       IN (IF parsed.ok /\ (withNull \/ ~parsed.isNull) THEN <<parsed.value>> ELSE <<>>)
            \o ParsedOf(Tail(lines), withNull)

\* C15 as stated: no line that is not JSON is emitted, none raises an error
\* signal or ends the run, and every line that is valid JSON is emitted, in
\* order.
C15_ValidLinesEmitted ==
  /\ Emitted = ParsedOf(LinesOf(runner.text), TRUE)
  /\ runner.child = "running" => \A i \in 1..Len(runner.signals) : runner.signals[i].type = "event"

\* C15, amended: no line that is not JSON is emitted, none raises an error
\* signal or ends the run, and every line that parses to a JSON value other
\* than null is emitted, in order (on a line holding null, reading
\* event.sessionID throws inside the try block and the line is dropped).
C15_InvalidLinesDropped ==
  /\ Emitted = ParsedOf(LinesOf(runner.text), FALSE)
  /\ runner.child = "running" => \A i \in 1..Len(runner.signals) : runner.signals[i].type = "event"

\* a line that is not JSON was followed by a JSON line, which was emitted
C15_Witness ==
  /\ runner.child = "running"
  /\ runner.received = <<"x", "\n", "{", "a", "}", "\n">>
  /\ Len(Emitted) = 1

\* C16: however the stdout is cut into chunks, the runner has emitted exactly
\* the events parsed from the non-blank JSON lines of the output received so
\* far (a line holding null yields no event), in line order, each as soon as
\* its newline was received: the events of the output decoded as a whole.
C16_ChunkIndependent == Emitted = ParsedOf(LinesOf(decode(runner.received)), FALSE)

\* C17: on close the runner parses and emits a non-empty trailing partial
\* line, then emits done with the last known handle and the exit code; done
\* is emitted exactly once, only on close, and nothing is emitted after it.
Dones == SelectSeq(runner.signals, LAMBDA sig : sig.type = "done")

C17_DoneLast ==
  IF runner.child = "closed"
  THEN /\ Len(Dones) = 1
       /\ Last(runner.signals) =
            Signal("done", [sessionID |-> runner.lastSessionID, exitCode |-> runner.exitCode])
  ELSE Dones = <<>>

C17_CloseStep ==
  /\ (runner.child \in {"running", "errored"} /\ runner'.child = "closed") =>
       LET trailing == JSONparse(trim(runner.buffer))
           flushed == IF trailing.ok /\ ~trailing.isNull
                      THEN <<Signal("event", trailing.value)>> ELSE <<>>
       IN /\ SubSeq(runner'.signals, 1, Len(runner'.signals) - 1) = runner.signals \o flushed
          /\ Last(runner'.signals).type = "done"
  /\ runner.child = "closed" => runner'.signals = runner.signals

C17_FlushThenDone == [](C17_DoneLast) /\ [][C17_CloseStep]_vars

\* the child closed after writing a JSON line without a newline: the line
\* was emitted, then done
C17_Witness ==
  /\ runner.child = "closed"
  /\ runner.received = <<"{", "a", "}">>
  /\ SignalTypes(runner.signals) = <<"event", "done">>

\* C18: the handle carried by done is the sessionID of the last emitted event
\* with a non-empty sessionID, or, when no event carried one, the handle
\* passed in the request (null for a new session).
WithHandle == SelectSeq(Emitted, LAMBDA event : Truthy(Get(event, "sessionID", Null)))

C18_LastHandleWins ==
  runner.child = "closed" =>
    Last(runner.signals).payload.sessionID =
      IF WithHandle = <<>> THEN runner.handle ELSE Last(WithHandle).sessionID

\* two events carried different handles and the request passed a third
C18_Witness ==
  /\ runner.child = "closed"
  /\ Len(WithHandle) = 2
  /\ WithHandle[1].sessionID # WithHandle[2].sessionID
  /\ runner.handle = "sess-0"

\* the flag occurs in the argument list, before the message
HasFlag(args, flag) == \E i \in 1..Len(args) - 1 : args[i] = flag
\* the flag occurs followed by the value
HasOption(args, flag, value) ==
  \E i \in 1..Len(args) - 2 : args[i] = flag /\ args[i + 1] = value

ArgsFixed ==
  /\ SubSeq(spawnArgs.args, 1, 4) = <<"run", "--format", "json", "--thinking">>
  /\ Last(spawnArgs.args) = spawnArgs.opts.message

ArgsOptional(flag, value) ==
  IF value # Null THEN HasOption(spawnArgs.args, flag, value)
  ELSE ~HasFlag(spawnArgs.args, flag)

ArgsOthers ==
  /\ ArgsOptional("--session", spawnArgs.opts.sessionID)
  /\ ArgsOptional("--agent", spawnArgs.opts.agent)
  /\ ArgsOptional("--command", spawnArgs.opts.command)
  /\ ArgsOptional("--dir", spawnArgs.opts.directory)
  /\ \A f \in FileNames :
       HasOption(spawnArgs.args, "-f", f)
         <=> \E i \in 1..Len(spawnArgs.opts.files) : spawnArgs.opts.files[i] = f
  /\ HasFlag(spawnArgs.args, "-f") <=> spawnArgs.opts.files # <<>>

\* C19 as stated: the list starts with the fixed flags, ends with the
\* message, and holds the session, model, agent, command, directory and file
\* flags only when the option is present in the request.
C19_FlagsOnlyWhenPresent ==
  spawnArgs.built =>
    ArgsFixed /\ ArgsOthers /\ ArgsOptional("-m", spawnArgs.opts.model)

\* C19, amended: the list starts with the fixed flags, ends with the message,
\* holds the session, agent, command, directory and file flags only when the
\* option is present, and always holds the model flag: with the requested
\* model, or with the default model when the request names none.
C19_ModelAlwaysPassed ==
  spawnArgs.built =>
    /\ ArgsFixed
    /\ ArgsOthers
    /\ HasOption(spawnArgs.args, "-m",
                 IF spawnArgs.opts.model # Null THEN spawnArgs.opts.model ELSE DEFAULT_MODEL)
    /\ Cardinality({i \in 1..Len(spawnArgs.args) - 1 : spawnArgs.args[i] = "-m"}) = 1

\* a request that continues a session and names no model
C19_Witness ==
  /\ spawnArgs.built
  /\ spawnArgs.opts.model = Null
  /\ spawnArgs.opts.sessionID # Null
  /\ spawnArgs.opts.files # <<>>

\* C20: blocks() is a pure function of the accumulator state: a call leaves
\* the state as it was, a call that follows a call returns the same blocks,
\* and an accumulator that was rendered any number of times is in the state
\* of one that received the same pushes and was never rendered, so later
\* pushes and renders produce the same from both.
C20_RenderStep ==
  format'.lastOp = "blocks" =>
    /\ format'.accumulator = format.accumulator
    /\ format'.out = blocks(format.accumulator)
    /\ format.lastOp = "blocks" => format'.out = format.out

C20_SameAsUnrendered ==
  /\ format.accumulator = format.shadow
  /\ blocks(format.accumulator) = blocks(format.shadow)

IsPrefix(s, t) == Len(s) <= Len(t) /\ SubSeq(t, 1, Len(s)) = s
\* this step pushes an event
IsPush == format'.pushes = format.pushes + 1
Pushed == Last(format'.events)

\* C21: a push leaves every finalized segment in place and unchanged and only
\* appends segments at the end; the segments are those of a fresh accumulator
\* that received the same events in the same order.
C21_PushStep == IsPush => IsPrefix(format.accumulator.parts, format'.accumulator.parts)

C21_Replayed == format.accumulator.parts = Replay(format.events).parts

C21_AppendOnly == [](C21_Replayed) /\ [][C21_PushStep]_vars

\* segments were finalized by three pushes
C21_Witness ==
  /\ format.pushes = 3
  /\ Len(format.accumulator.parts) = 3

\* C22: finished becomes true when a step-finish with reason "stop" is pushed
\* and no later event of any type makes it false again: it is true exactly
\* when such an event is among those pushed so far.
IsStop(event) == event.type = "step_finish" /\ PartGet(event, "reason", "") = "stop"

C22_PushStep ==
  IsPush =>
    /\ IsStop(Pushed) => format'.accumulator.finished
    /\ format.accumulator.finished => format'.accumulator.finished

C22_Finished ==
  format.accumulator.finished <=> \E i \in 1..Len(format.events) : IsStop(format.events[i])

C22_FinishedSticks == [](C22_Finished) /\ [][C22_PushStep]_vars

\* a step-start was pushed after the stop
C22_Witness ==
  /\ format.pushes = 3
  /\ IsStop(format.events[2])
  /\ format.events[3].type = "step_start"
  /\ format.accumulator.finished

\* C23: a step-start other than the first, a tool-use and a thinking event
\* first move a non-empty text buffer into a new text segment and empty the
\* buffer; a tool-use or thinking event then appends exactly one tool or
\* thinking segment; the first step-start changes neither segments nor buffer.
BufferSegment(acc) ==
  IF acc.currentText # <<>> THEN <<[type |-> "text", data |-> acc.currentText]>> ELSE <<>>

C23_PushStep ==
  IsPush =>
    LET before == format.accumulator
        after == format'.accumulator
        flushed == before.parts \o BufferSegment(before)
    IN CASE Pushed.type = "step_start" /\ before.stepCount >= 1 ->
              after.parts = flushed /\ after.currentText = <<>>
         [] Pushed.type = "step_start" /\ before.stepCount = 0 ->
              after.parts = before.parts /\ after.currentText = before.currentText
         [] Pushed.type \in {"tool_use", "thinking"} ->
              /\ Len(after.parts) = Len(flushed) + 1
              /\ SubSeq(after.parts, 1, Len(flushed)) = flushed
              /\ Last(after.parts).type = (IF Pushed.type = "tool_use" THEN "tool" ELSE "thinking")
              /\ Pushed.type = "thinking" => Last(after.parts).data = Pushed.part.thinking
              /\ after.currentText = <<>>
         [] OTHER -> TRUE

C23_FlushOnNewBlock == [][C23_PushStep]_vars

\* the second step-start flushed the text that followed the first
C23_Witness ==
  /\ format.pushes = 3
  /\ format.events[1].type = "step_start"
  /\ format.events[2].type = "text"
  /\ format.events[3].type = "step_start"
  /\ format.accumulator.parts = <<[type |-> "text", data |-> format.events[2].part.text]>>
  /\ format.accumulator.currentText = <<>>

\* C24: a text event only appends its fragment to the buffer and leaves the
\* segments as they are; the text segments joined in order, followed by the
\* buffer, are always the text fragments pushed so far joined in order.
RECURSIVE Concat(_)
Concat(seqs) == IF seqs = <<>> THEN <<>> ELSE Head(seqs) \o Concat(Tail(seqs))

TextSegments(acc) ==
  LET texts == SelectSeq(acc.parts, LAMBDA p : p.type = "text")
  IN [i \in 1..Len(texts) |-> texts[i].data]

Fragments(events) ==
  LET texts == SelectSeq(events, LAMBDA e : e.type = "text")
  IN [i \in 1..Len(texts) |-> PartGet(texts[i], "text", <<>>)]

C24_PushStep ==
  (IsPush /\ Pushed.type = "text") =>
    /\ format'.accumulator.parts = format.accumulator.parts
    /\ format'.accumulator.currentText = format.accumulator.currentText \o Pushed.part.text

C24_AllText ==
  Concat(TextSegments(format.accumulator)) \o format.accumulator.currentText
    = Concat(Fragments(format.events))

C24_TextPreserved == [](C24_AllText) /\ [][C24_PushStep]_vars

\* a fragment was flushed into a segment and a different one is in the buffer
C24_Witness ==
  /\ TextSegments(format.accumulator) = <<<<"h", "i">>>>
  /\ format.accumulator.currentText = <<"y", "o">>

\* C25: a step-finish that carries token usage replaces the tracked usage by
\* the usage of that event alone; any other event, a step-finish without
\* usage included, leaves the tracked usage as it was.
HasUsage(event) == event.type = "step_finish" /\ PartGet(event, "tokens", <<>>) # <<>>

UsageOf(event) ==
  LET tokens == event.part.tokens
      cache == Get(tokens, "cache", EmptyObject)
  IN [total |-> Get(tokens, "total", 0), input |-> tokens.input, output |-> tokens.output,
      reasoning |-> Get(tokens, "reasoning", 0), cacheRead |-> Get(cache, "read", 0),
      cacheWrite |-> Get(cache, "write", 0), cost |-> Get(event.part, "cost", 0)]

C25_PushStep ==
  IsPush =>
    IF HasUsage(Pushed)
    THEN format'.accumulator.tokenInfo = <<UsageOf(Pushed)>>
    ELSE format'.accumulator.tokenInfo = format.accumulator.tokenInfo

C25_LastUsageWins == [][C25_PushStep]_vars

\* a second usage replaced the first, and a step-finish without usage
\* followed
C25_Witness ==
  /\ format.pushes = 3
  /\ HasUsage(format.events[1])
  /\ HasUsage(format.events[2])
  /\ format.events[1] # format.events[2]
  /\ format.events[3].type = "step_finish"
  /\ ~HasUsage(format.events[3])
  /\ format.accumulator.tokenInfo = <<UsageOf(format.events[2])>>

\* what an accumulator holds to render, in construction order and without any
\* limit: the blocks of each segment, of the text buffer, and the status line
StatusBlocks(acc) ==
  IF ~acc.finished THEN <<contextBlock(ThinkingLabel)>>
  ELSE IF acc.tokenInfo # <<>> THEN <<contextBlock(usageLine(acc.tokenInfo[1]))>>
  ELSE <<>>

Untruncated(acc) ==
  Concat([i \in 1..Len(acc.parts) |-> partBlocks(acc.parts[i])])
    \o splitTextBlocks(acc.currentText) \o StatusBlocks(acc)

Rendered == format.lastOp = "blocks"

\* C26: blocks() returns the blocks of the segments in the order the segments
\* were finalized, then those of a non-empty text buffer, then the status
\* line; a truncated render is, before its notice, a prefix of that order.
C26_RenderOrder ==
  Rendered =>
    LET all == Untruncated(format.accumulator)
    IN IF Len(all) < MAX_BLOCKS
       THEN format.out = (IF all = <<>> THEN <<contextBlock(ProcessingLabel)>> ELSE all)
       ELSE IsPrefix(SubSeq(format.out, 1, Len(format.out) - 1), all)

\* tool and thinking segments, the text buffer and the status line were
\* rendered in full
C26_Witness ==
  /\ Rendered
  /\ Len(format.accumulator.parts) >= 3
  /\ format.accumulator.parts[1].type # Last(format.accumulator.parts).type
  /\ format.accumulator.currentText # <<>>
  /\ Len(format.out) = Len(Untruncated(format.accumulator))

\* C29: every render has at least one and at most MAX_BLOCKS + 1 = 50 blocks;
\* when the render without limit has more, the result is its first 49 blocks
\* followed by the truncation notice.
C29_BlockLimit ==
  Rendered =>
    /\ Len(format.out) \in 1..MAX_BLOCKS + 1
    /\ Len(Untruncated(format.accumulator)) > MAX_BLOCKS + 1 =>
         format.out = Append(SubSeq(Untruncated(format.accumulator), 1, MAX_BLOCKS),
                             contextBlock(TruncatedLabel))

\* an accumulator holding more than 50 blocks was rendered
C29_Witness ==
  /\ Rendered
  /\ Len(Untruncated(format.accumulator)) > MAX_BLOCKS + 1
  /\ Len(format.out) = MAX_BLOCKS + 1

\* the chunks joined, each followed by the separator chosen for the split
\* that ended it
RECURSIVE JoinChunks(_, _)
JoinChunks(chunks, seps) ==
  IF chunks = <<>> THEN <<>>
  ELSE Head(chunks) \o Head(seps) \o JoinChunks(Tail(chunks), Tail(seps))

\* the text is the chunks joined, with a newline re-inserted after some of
\* the chunks (a split at a trailing newline leaves no chunk behind it)
Restores(chunks, text) ==
  \E seps \in [1..Len(chunks) -> {<<>>, <<"\n">>}] : JoinChunks(chunks, seps) = text

\* C27: for every text and limit, every chunk splitAtBoundary returns is at
\* most the limit long, and the chunks joined in order, with the newline that
\* was stripped at a newline split re-inserted, are the text: nothing is lost.
C27_SplitLossless ==
  chunker.applied =>
    /\ \A i \in 1..Len(chunker.chunks) : Len(chunker.chunks[i]) <= chunker.max
    /\ Restores(chunker.chunks, chunker.text)

\* a text was split in three or more chunks and a newline was stripped
C27_Witness ==
  /\ chunker.applied
  /\ Len(chunker.chunks) >= 3
  /\ Len(Concat(chunker.chunks)) < Len(chunker.text)

\* C28: a text of length L greater than the limit M is split into at most
\* ceil(L / M) chunks.
C28_ChunkCount ==
  (chunker.applied /\ Len(chunker.text) > chunker.max) =>
    Len(chunker.chunks) <= (Len(chunker.text) + chunker.max - 1) \div chunker.max

\* the accumulator holds an empty document
EmptyDocument(acc) == acc.parts = <<>> /\ acc.currentText = <<>>

\* C30 as stated: an accumulator that holds an empty document renders exactly
\* one block, the Processing... placeholder.
C30_EmptyRendersPlaceholder ==
  (Rendered /\ EmptyDocument(format.accumulator)) =>
    format.out = <<contextBlock(ProcessingLabel)>>

\* C30, amended: an accumulator that holds an empty document renders exactly
\* one block: the Thinking... indicator while the run is not finished, the
\* usage line once it is finished with token usage, and the Processing...
\* placeholder only when it is finished without token usage.
C30_EmptyRendersOneBlock ==
  (Rendered /\ EmptyDocument(format.accumulator)) =>
    /\ Len(format.out) = 1
    /\ ~format.accumulator.finished => format.out = <<contextBlock(ThinkingLabel)>>
    /\ (format.accumulator.finished /\ format.accumulator.tokenInfo # <<>>) =>
         format.out = <<contextBlock(usageLine(format.accumulator.tokenInfo[1]))>>
    /\ (format.accumulator.finished /\ format.accumulator.tokenInfo = <<>>) =>
         format.out = <<contextBlock(ProcessingLabel)>>

\* an empty document of a finished run without usage was rendered as the
\* placeholder, after at least one event was pushed
C30_Witness ==
  /\ Rendered
  /\ format.pushes >= 1
  /\ EmptyDocument(format.accumulator)
  /\ format.accumulator.finished
  /\ format.accumulator.tokenInfo = <<>>
  /\ format.out = <<contextBlock(ProcessingLabel)>>

HasNotice(out) == out # <<>> /\ out[Len(out)] = contextBlock(TruncatedLabel)
IsMarker(block) == block = contextBlock(ThinkingLabel)
IsUsage(block) == block.type = "context" /\ block.text # <<>> /\ block.text[1] = "tokens: "

\* C31 as stated: every render of an unfinished accumulator ends with the
\* in-progress marker; every render of a finished accumulator contains no
\* in-progress marker and ends with the usage line exactly when usage has
\* been reported.
C31_StatusLine ==
  Rendered =>
    /\ ~format.accumulator.finished => IsMarker(format.out[Len(format.out)])
    /\ format.accumulator.finished =>
         /\ \A i \in 1..Len(format.out) : ~IsMarker(format.out[i])
         /\ IsUsage(format.out[Len(format.out)]) <=> format.accumulator.tokenInfo # <<>>

\* C31, amended: a render that does not end with the truncation notice ends
\* with the in-progress marker when the accumulator is unfinished, and, when
\* it is finished, ends with the usage line of the last reported usage
\* exactly when usage has been reported; no render of a finished accumulator
\* contains the in-progress marker.
C31_StatusLineUntruncated ==
  Rendered =>
    /\ (~format.accumulator.finished /\ ~HasNotice(format.out)) =>
         IsMarker(format.out[Len(format.out)])
    /\ format.accumulator.finished =>
         \A i \in 1..Len(format.out) : ~IsMarker(format.out[i])
    /\ (format.accumulator.finished /\ ~HasNotice(format.out)) =>
         /\ IsUsage(format.out[Len(format.out)]) <=> format.accumulator.tokenInfo # <<>>
         /\ format.accumulator.tokenInfo # <<>> =>
              format.out[Len(format.out)] =
                contextBlock(usageLine(format.accumulator.tokenInfo[1]))

\* the events text "hi", step_finish{stop, tokens 10 / 5} were rendered as the
\* text unit followed by the usage line holding 10 and 5
C31_Witness ==
  /\ Rendered
  /\ format.events = <<[type |-> "text", part |-> [text |-> <<"h", "i">>]],
                       [type |-> "step_finish",
                        part |-> [reason |-> "stop", tokens |-> [input |-> 10, output |-> 5]]]>>
  /\ format.out = <<markdownSection(<<"h", "i">>),
                    contextBlock(<<"tokens: ", "10", " in / ", "5", " out">>)>>

\* what a tool_use event says, read from the event itself
EventTool(event) == PartGet(event, "tool", "unknown")
EventState(event) == PartGet(event, "state", EmptyObject)
EventCompleted(event) ==
  /\ Get(EventState(event), "status", "running") = "completed"
  /\ Get(EventState(event), "output", <<>>) # <<>>
EventUnits(event) == IF EventCompleted(event) THEN 4 ELSE 3

RECURSIVE UnitsBefore(_, _)
UnitsBefore(events, i) ==
  IF i <= 1 THEN 0 ELSE UnitsBefore(events, i - 1) + EventUnits(events[i - 1])

Contains(seq, sub) ==
  \E i \in 0..(Len(seq) - Len(sub)) : SubSeq(seq, i + 1, i + Len(sub)) = sub

\* C32: a tool segment renders as a header unit naming the tool, a
\* formatted-input unit (for a shell tool with a command, holding the literal
\* command), an output unit if and only if its status is completed and its
\* output is non-empty, and a trailing divider.
C32_ToolUnits ==
  Rendered =>
    /\ Len(format.out) = UnitsBefore(format.events, Len(format.events) + 1) + 1
    /\ \A i \in 1..Len(format.events) :
         LET event == format.events[i]
             o == UnitsBefore(format.events, i)
             input == Get(EventState(event), "input", EmptyObject)
         IN /\ format.out[o + 1].type = "section"
            /\ Contains(format.out[o + 1].text, <<EventTool(event)>>)
            /\ format.out[o + 2].type = "section"
            /\ (EventTool(event) = "bash" /\ "command" \in DOMAIN input) =>
                 Contains(format.out[o + 2].text, input.command)
            /\ EventCompleted(event) =>
                 /\ format.out[o + 3].type = "section"
                 /\ Contains(format.out[o + 3].text, EventState(event).output)
            /\ format.out[o + EventUnits(event)] = DividerBlock

\* a shell tool_use with the command ls -la, a status other than completed
\* and an output was rendered as header, command and divider
C32_Witness ==
  /\ Rendered
  /\ Len(format.events) = 1
  /\ EventTool(format.events[1]) = "bash"
  /\ Get(EventState(format.events[1]), "status", "running") # "completed"
  /\ Get(EventState(format.events[1]), "output", <<>>) # <<>>
  /\ Get(EventState(format.events[1]), "input", EmptyObject) = [command |-> Command]
  /\ Len(format.out) = 4
  /\ Contains(format.out[2].text, Command)
  /\ format.out[3] = DividerBlock

\* C33: upsertThread(id, patch) creates the thread with the default fields
\* when id is absent, overrides exactly the fields named in the patch, leaves
\* every other field of that thread and every other thread unchanged, stores
\* the result so that a following getThread(id) returns it, and returns it.
C33_Upsert ==
  storeCall.count > 0 =>
    LET id == storeCall.threadTs
        base == IF id \in DOMAIN storeCall.before THEN storeCall.before[id]
                ELSE [sessionID |-> Null, directory |-> Null, model |-> Null,
                      agent |-> Null, busy |-> FALSE, queue |-> <<>>,
                      pendingMessage |-> Null, pendingCommand |-> Null,
                      pickerTs |-> Null, browsePath |-> Null]
    IN /\ getThread(threads, id) # <<>>
       /\ getThread(threads, id) = storeCall.returned
       /\ DOMAIN threads = DOMAIN storeCall.before \cup {id}
       /\ \A f \in DOMAIN threads[id] :
            threads[id][f] = IF f \in DOMAIN storeCall.patch THEN storeCall.patch[f]
                             ELSE base[f]
       /\ \A other \in DOMAIN threads \ {id} : threads[other] = storeCall.before[other]

\* a second call patched one field of an existing thread that held two
\* patched fields, while another thread existed
C33_Witness ==
  /\ storeCall.count = 2
  /\ storeCall.threadTs \in DOMAIN storeCall.before
  /\ DOMAIN storeCall.patch = {"busy"}
  /\ storeCall.before[storeCall.threadTs].directory = DirectiveDir
  /\ storeCall.before[storeCall.threadTs].sessionID = "s1"
  /\ threads[storeCall.threadTs].directory = DirectiveDir

\* C34: while a run is active at most one update timer is pending however
\* many events arrive, each periodic publish renders the accumulator as it is
\* when the timer fires, and every publish of the run updates the one message
\* created at the start of the run.
C34_Step ==
  \A t \in ThreadIds :
    /\ run'[t].timers <= 1
    /\ (/\ Len(run'[t].inflight) = Len(run[t].inflight) + 1
        /\ Last(run'[t].inflight).kind = "periodic") =>
         Last(run'[t].inflight).blocks = blocks(run'[t].accumulator)
    /\ run'[t].targets \subseteq {run'[t].messageTs}
    /\ (run[t].pc = "active" /\ run'[t].pc = "active") =>
         run'[t].messageTs = run[t].messageTs

C34_Coalesced == [][C34_Step]_vars

\* two events arrived while one timer was pending; the timer fired and its
\* update, rendered from both events, is in flight to the run's message
C34_Witness ==
  /\ run[MainThread].emitted = 2
  /\ run[MainThread].timers = 0
  /\ ~run[MainThread].updatePending
  /\ run[MainThread].shown = blocks(NewAccumulator)
  /\ Len(run[MainThread].inflight) = 1
  /\ run[MainThread].inflight[1] = Publish("periodic", blocks(run[MainThread].accumulator))
  /\ run[MainThread].targets = {run[MainThread].messageTs}

\* C37: for each run the terminal render is the last update applied to the
\* run's message: once it has been issued there is a single terminal render
\* and no periodic update of the run is still in flight.
C37_TerminalLast ==
  \A t \in ThreadIds :
    run[t].terminal # <<>> =>
      /\ Len(run[t].terminal) = 1
      /\ run[t].timers = 0
      /\ \A i \in 1..Len(run[t].inflight) : run[t].inflight[i].kind # "periodic"

\* C35: no process is started and no thread is created or modified as a
\* result of a message, mention or button action whose sender is not the
\* allowed user: the step that delivers such an event changes nothing of the
\* bridge, so nothing is left behind that a later step could act on.
C35_Step ==
  (inbound' # inbound /\ inbound'.user # "U_OWNER") =>
    /\ threads' = threads
    /\ procCount' = procCount
    /\ run' = run
    /\ started' = started
    /\ calls' = calls
    /\ enqlog' = enqlog
    /\ folderTasks' = folderTasks
    /\ pickerPosting' = pickerPosting
    /\ activeProcesses' = activeProcesses

C35_OnlyAllowedUser == [][C35_Step]_vars

\* two events from other users were delivered, the latest after the allowed
\* user's message, whose run is active
C35_Witness ==
  /\ inbound.rejected = 2
  /\ inbound.user \in {"U_OTHER", Null}
  /\ HasThread(threads, MainThread)
  /\ run[MainThread].pc = "active"
  /\ Len(started[MainThread]) = 1

\* C36: the message or command held while the user picks a folder is
\* dispatched exactly once, also when two folder-select actions for the
\* conversation interleave: it is handed to runWithQueue at most once.
C36_DispatchedOnce ==
  \A t \in ThreadIds : Len(calls[t]) <= 1

\* the command a request was submitted with: that of the runWithQueue call
\* that carried its message
SubmittedCommand(t, message) ==
  IF \E j \in 1..Len(calls[t]) : calls[t][j].message = message /\ calls[t][j].command # Null
  THEN (CHOOSE c \in {calls[t][j].command : j \in 1..Len(calls[t])} : c # Null)
  ELSE Null

\* C38: a request queued because its conversation is busy is later run with
\* the parameters it was submitted with: a queued init request is run with
\* the init command.
C38_QueuedParameters ==
  \A t \in ThreadIds :
    \A i \in 1..Len(started[t]) :
      started[t][i].origin = "queue" =>
        started[t][i].command = SubmittedCommand(t, started[t][i].message)

\* the conversation waits for a folder selection
Waiting(map, t) ==
  /\ HasThread(map, t)
  /\ map[t].pendingMessage # Null \/ map[t].pendingCommand # Null
  /\ map[t].directory = Null

\* no run of the conversation was started in a directory given by a dir:
\* directive, and its directory is not one
DirectiveFree(t) ==
  /\ HasThread(threads, t) => threads[t].directory # DirectiveDir
  /\ \A i \in 1..Len(started[t]) : started[t][i].directory # DirectiveDir

\* the first run is the one of the pending request, the next ones are those
\* of the held messages in their arrival order, all in the selected folder
PendingThenHeld(t) ==
  Held(t) # <<>> =>
    /\ \A i \in 1..Len(started[t]) : started[t][i].directory = PickedDir
    /\ started[t] # <<>> =>
         /\ started[t][1].origin = "direct"
         /\ \A k \in 1..Len(Held(t)) : started[t][1].message # Held(t)[k]
    /\ \A k \in 1..Len(Held(t)) :
         k + 1 <= Len(started[t]) => started[t][k + 1].message = Held(t)[k]

\* C39 as stated: a message that arrives while the conversation waits for a
\* folder selection is held in the queue without starting a process; after
\* the selection the pending first message is run first and the held
\* messages are then run in their arrival order, all in the selected folder.
C39_HeldUntilSelected ==
  /\ [][\A t \in ThreadIds :
         (Waiting(threads, t) /\ nextMsg' = nextMsg + 1) =>
           (started'[t] = started[t] /\ procCount' = procCount)]_vars
  /\ [](\A t \in ThreadIds : PendingThenHeld(t))

\* C39, amended: a message without a directory directive that arrives while
\* the conversation waits for a folder selection is appended to the queue
\* without starting a process; and as long as no run was started in a
\* directory given by a directive, the pending request is run first after
\* the selection and the held messages are then run in their arrival order,
\* all in the selected folder.
C39_PlainStep ==
  \A t \in ThreadIds :
    (Waiting(threads, t) /\ nextMsg' = nextMsg + 1 /\ threads'[t].directory = Null) =>
      /\ started' = started
      /\ procCount' = procCount
      /\ run' = run
      /\ \/ threads'[t].queue = Append(threads[t].queue, MsgText(nextMsg'))
         \/ threads' = threads

C39_PlainHeldUntilSelected ==
  /\ [][C39_PlainStep]_vars
  /\ [](\A t \in ThreadIds : DirectiveFree(t) => PendingThenHeld(t))

\* two messages were held while the conversation waited; after the folder
\* was selected the pending message and both held messages were run in order
C39_Witness ==
  /\ Len(Held(MainThread)) = 2
  /\ Messages(started[MainThread]) = <<MsgText(1)>> \o Held(MainThread)
  /\ \A i \in 1..3 : started[MainThread][i].directory = PickedDir

\* C40: the truncation notice appears in a render only when at least one
\* block of the document was dropped: a document whose render without limit
\* (content blocks and status line) has at most MAX_BLOCKS + 1 = 50 blocks is
\* rendered in full, its status line included.
C40_NoticeOnlyWhenDropped ==
  (Rendered /\ Untruncated(format.accumulator) # <<>>) =>
    /\ HasNotice(format.out) =>
         Len(Untruncated(format.accumulator)) > Len(format.out) - 1
    /\ Len(Untruncated(format.accumulator)) <= MAX_BLOCKS + 1 =>
         format.out = Untruncated(format.accumulator)

====
